---------------------------- MODULE Spec2Model ----------------------------
(***************************************************************************)
(* Manufacturing Intelligence MCP server (src/server.py) over the store    *)
(* created by src/seed_db.py.                                              *)
(*                                                                         *)
(* Text is modelled by TLA+ strings handled character by character (Len,   *)
(* SubSeq and \o on strings).  SQL values carry their storage class as a   *)
(* tag so that values of different classes can be compared.  Dates are day *)
(* ordinals: ISO-8601 date text orders as the ordinals do, and julianday   *)
(* differences are ordinal differences.  REAL values are held in tenths.   *)
(***************************************************************************)
EXTENDS Integers, Sequences, FiniteSets, TLC

(***************************************************************************)
(* Bounds of the model.                                                    *)
(***************************************************************************)
\* concurrent invocations the transport may have in flight
MaxInv == 2
\* rows of the parts table whose content is drawn freely
MaxParts == 2
\* the states the random generator of a seed run may start in: 0..MaxDraw
MaxDraw == 2
\* runs of the seed script against the same store
MaxRuns == 2

(***************************************************************************)
(* Python str operations used by the server.                               *)
(***************************************************************************)
\* the printable ASCII characters from code 32 on; the place of the grave
\* accent (96), which no text of the program uses, is held by a tab
Ascii == " !\"#$%&'()*+,-./0123456789:;<=>?@ABCDEFGHIJKLMNOPQRSTUVWXYZ[\\]^_\tabcdefghijklmnopqrstuvwxyz{|}~"

CharAt(s, i) == SubSeq(s, i, i)

\* the code point of each printable character
CodePoints ==
  [c \in {CharAt(Ascii, i) : i \in 1..Len(Ascii)} \ {"\t"} |->
     31 + (CHOOSE i \in 1..Len(Ascii) : CharAt(Ascii, i) = c)] @@ <<>>

\* code point of a one-character string
Code(c) ==
  IF c = "\t" THEN 9
  ELSE IF c = "\n" THEN 10
  ELSE IF c = "\r" THEN 13
  ELSE CodePoints[c]

IsSpace(c) == c \in {" ", "\t", "\n", "\r"}

LowerChar(c) ==
  IF Code(c) >= 65 /\ Code(c) <= 90 THEN CharAt(Ascii, Code(c) + 32 - 31) ELSE c

RECURSIVE Lower(_)
\* str.lower()
Lower(s) == IF s = "" THEN "" ELSE LowerChar(CharAt(s, 1)) \o Lower(SubSeq(s, 2, Len(s)))

RECURSIVE LStrip(_)
LStrip(s) ==
  IF s /= "" /\ IsSpace(CharAt(s, 1)) THEN LStrip(SubSeq(s, 2, Len(s))) ELSE s

RECURSIVE RStrip(_)
RStrip(s) ==
  IF s /= "" /\ IsSpace(CharAt(s, Len(s))) THEN RStrip(SubSeq(s, 1, Len(s) - 1)) ELSE s

\* str.strip()
Strip(s) == RStrip(LStrip(s))

\* str.startswith(p)
StartsWith(s, p) == Len(s) >= Len(p) /\ SubSeq(s, 1, Len(p)) = p

\* the text of s after its first n characters
Drop(s, n) == SubSeq(s, n + 1, Len(s))

RECURSIVE StrLessFrom(_, _, _)
StrLessFrom(a, b, i) ==
  IF i > Len(b) THEN FALSE
  ELSE IF i > Len(a) THEN TRUE
  ELSE IF Code(CharAt(a, i)) < Code(CharAt(b, i)) THEN TRUE
  ELSE IF Code(CharAt(a, i)) > Code(CharAt(b, i)) THEN FALSE
  ELSE StrLessFrom(a, b, i + 1)

\* a < b in the BINARY collation (byte order)
StrLess(a, b) == StrLessFrom(a, b, 1)

RECURSIVE FindFrom(_, _, _)
FindFrom(s, p, i) ==
  IF i + Len(p) - 1 > Len(s) THEN 0
  ELSE IF SubSeq(s, i, i + Len(p) - 1) = p THEN i
  ELSE FindFrom(s, p, i + 1)

\* str.find(p) + 1: the first position of p in s, 0 when absent
Find(s, p) == FindFrom(s, p, 1)

(***************************************************************************)
(* Values: Python/SQL scalars with their class.                            *)
(***************************************************************************)
IntV(n) == [t |-> "int", v |-> n]
TextV(s) == [t |-> "text", v |-> s]
DateV(d) == [t |-> "date", v |-> d]
RealV(tenths) == [t |-> "real", v |-> tenths]
Null == [t |-> "null"]

\* Python truth value of an Optional[int] / Optional[str] field
Truthy(x) ==
  \/ x.t = "int" /\ x.v /= 0
  \/ x.t = "text" /\ x.v /= ""

\* SQL "a = b" taken as a WHERE condition (NULL compares to nothing)
SqlEq(a, b) == a.t = b.t /\ a.t /= "null" /\ a.v = b.v

(***************************************************************************)
(* Input models (pydantic): declared fields, types, defaults and ranges.   *)
(***************************************************************************)
LimitMin == 1
LimitMax == 100
DefaultLimit == 20
SqlMinLength == 5

\* Optional[<type>] = Field(None)
OptionalField(name, type) ==
  [name |-> name, type |-> type, required |-> FALSE, optional |-> TRUE,
   default |-> Null, ranged |-> FALSE]

\* limit: int = Field(20, ge=1, le=100)
LimitField ==
  [name |-> "limit", type |-> "int", required |-> FALSE, optional |-> FALSE,
   default |-> IntV(DefaultLimit), ranged |-> TRUE]

\* sql: str = Field(..., min_length=5)
SqlField ==
  [name |-> "sql", type |-> "text", required |-> TRUE, optional |-> FALSE,
   default |-> Null, ranged |-> FALSE]

SqlInput == <<SqlField>>
FactoryFilter == <<OptionalField("factory_id", "int")>>
MachineFilter == <<OptionalField("status", "text"), OptionalField("factory_id", "int")>>
WorkOrderFilter ==
  <<OptionalField("status", "text"), OptionalField("priority", "text"),
    OptionalField("factory_id", "int"), LimitField>>
InspectionFilter ==
  <<OptionalField("result", "text"), OptionalField("factory_id", "int"), LimitField>>
MaintenanceFilter ==
  <<OptionalField("machine_id", "int"), OptionalField("maintenance_type", "text"),
    LimitField>>

FilterEndpoints ==
  {"list_factories", "get_machines", "get_work_orders", "quality_summary",
   "maintenance_report"}
ReportEndpoints == {"inventory_status", "supplier_performance", "operator_performance"}
TemplateEndpoints == FilterEndpoints \cup ReportEndpoints
Endpoints == TemplateEndpoints \cup {"run_query", "get_schema"}

\* the model of the single argument of each tool (none for the last four)
ModelOf(ep) ==
  CASE ep = "run_query" -> SqlInput
    [] ep = "list_factories" -> FactoryFilter
    [] ep = "get_machines" -> MachineFilter
    [] ep = "get_work_orders" -> WorkOrderFilter
    [] ep = "quality_summary" -> InspectionFilter
    [] ep = "maintenance_report" -> MaintenanceFilter
    [] OTHER -> <<>>

\* ConfigDict(str_strip_whitespace=True) is set on SqlInput only
StripsWhitespace(ep) == ep = "run_query"

FieldNames(ep) == {ModelOf(ep)[k].name : k \in DOMAIN ModelOf(ep)}

\* the value a field takes from the raw argument (after whitespace stripping)
FieldValue(ep, f, raw) ==
  IF f.name \notin DOMAIN raw THEN f.default
  ELSE IF raw[f.name].t = "text" /\ StripsWhitespace(ep)
       THEN TextV(Strip(raw[f.name].v))
       ELSE raw[f.name]

\* FieldOk without the ge/le bounds of limit
FieldOkUnranged(ep, f, raw) ==
  IF f.name \notin DOMAIN raw THEN ~f.required
  ELSE LET x == FieldValue(ep, f, raw) IN
       \/ x.t = "null" /\ f.optional
       \/ /\ x.t = f.type
          /\ f.name = "sql" => Len(x.v) >= SqlMinLength

FieldOk(ep, f, raw) ==
  IF f.name \notin DOMAIN raw THEN ~f.required
  ELSE LET x == FieldValue(ep, f, raw) IN
       \/ x.t = "null" /\ f.optional
       \/ /\ x.t = f.type
          /\ f.ranged => (x.v >= LimitMin /\ x.v <= LimitMax)
          /\ f.name = "sql" => Len(x.v) >= SqlMinLength

\* extra="forbid", then every declared field
Valid(ep, raw) ==
  /\ DOMAIN raw \subseteq FieldNames(ep)
  /\ \A k \in DOMAIN ModelOf(ep) : FieldOk(ep, ModelOf(ep)[k], raw)

\* the validated params object
Params(ep, raw) ==
  [n \in FieldNames(ep) |->
     FieldValue(ep, (CHOOSE k \in {ModelOf(ep)[j] : j \in DOMAIN ModelOf(ep)} : k.name = n), raw)]

(***************************************************************************)
(* Statement texts of the tools, as written in the source.                 *)
(***************************************************************************)
Sql_list_factories ==
  "\n        SELECT f.id, f.name, f.location, f.country, f.established_year, f.total_area_sqm,\n               COUNT(DISTINCT pl.id) AS production_lines,\n               COUNT(DISTINCT m.id)  AS machines\n        FROM factories f\n        LEFT JOIN production_lines pl ON pl.factory_id = f.id\n        LEFT JOIN machines m ON m.production_line_id = pl.id\n        WHERE f.active = 1\n    "

Sql_get_machines ==
  "\n        SELECT m.id, m.name, m.model, m.manufacturer, m.status,\n               m.age_years, m.cumulative_downtime_hours,\n               m.last_maintenance_date,\n               pl.name AS production_line, f.name AS factory\n        FROM machines m\n        JOIN production_lines pl ON pl.id = m.production_line_id\n        JOIN factories f ON f.id = pl.factory_id\n        WHERE 1=1\n    "

Sql_get_work_orders ==
  "\n        SELECT wo.id, wo.product_name, wo.status, wo.priority,\n               wo.quantity_target, wo.quantity_produced,\n               ROUND(100.0 * wo.quantity_produced / wo.quantity_target, 1) AS completion_pct,\n               wo.start_date, wo.end_date,\n               e.name AS operator, pl.name AS production_line, f.name AS factory\n        FROM work_orders wo\n        JOIN employees e ON e.id = wo.operator_id\n        JOIN production_lines pl ON pl.id = wo.production_line_id\n        JOIN factories f ON f.id = pl.factory_id\n        WHERE 1=1\n    "

Sql_quality_summary ==
  "\n        SELECT f.name AS factory, qi.result,\n               COUNT(*) AS count,\n               SUM(qi.defect_count) AS total_defects,\n               qi.defect_type\n        FROM quality_inspections qi\n        JOIN work_orders wo ON wo.id = qi.work_order_id\n        JOIN production_lines pl ON pl.id = wo.production_line_id\n        JOIN factories f ON f.id = pl.factory_id\n        WHERE 1=1\n    "

Sql_maintenance_report ==
  "\n        SELECT ml.id, ml.maintenance_date, ml.maintenance_type,\n               ml.downtime_hours, ml.cost, ml.description, ml.resolved,\n               m.name AS machine, m.status AS machine_status,\n               f.name AS factory, e.name AS technician\n        FROM maintenance_logs ml\n        JOIN machines m ON m.id = ml.machine_id\n        JOIN production_lines pl ON pl.id = m.production_line_id\n        JOIN factories f ON f.id = pl.factory_id\n        JOIN employees e ON e.id = ml.technician_id\n        WHERE 1=1\n    "

Sql_inventory_status ==
  "\n        SELECT p.id, p.name, p.sku, p.category, p.stock_quantity,\n               p.reorder_threshold,\n               CASE WHEN p.stock_quantity < p.reorder_threshold THEN 'LOW STOCK' ELSE 'OK' END AS stock_status,\n               p.unit_cost,\n               s.name AS supplier, s.lead_time_days, s.reliability_score,\n               COUNT(po.id) AS open_purchase_orders\n        FROM parts p\n        JOIN suppliers s ON s.id = p.supplier_id\n        LEFT JOIN purchase_orders po ON po.part_id = p.id AND po.status IN ('pending','shipped')\n        GROUP BY p.id\n        ORDER BY stock_status DESC, p.stock_quantity ASC\n    "

Sql_supplier_performance ==
  "\n        SELECT s.name AS supplier, s.country, s.reliability_score, s.lead_time_days,\n               COUNT(po.id) AS total_orders,\n               SUM(CASE WHEN po.status = 'delivered' THEN 1 ELSE 0 END) AS delivered,\n               SUM(CASE WHEN po.status = 'pending'   THEN 1 ELSE 0 END) AS pending,\n               SUM(CASE WHEN po.status = 'cancelled' THEN 1 ELSE 0 END) AS cancelled,\n               ROUND(AVG(\n                 CASE WHEN po.actual_delivery IS NOT NULL AND po.expected_delivery IS NOT NULL\n                 THEN julianday(po.actual_delivery) - julianday(po.expected_delivery)\n                 ELSE NULL END\n               ), 1) AS avg_delay_days\n        FROM suppliers s\n        LEFT JOIN purchase_orders po ON po.supplier_id = s.id\n        GROUP BY s.id\n        ORDER BY s.reliability_score DESC\n    "

Sql_operator_performance ==
  "\n        SELECT e.name AS operator, e.shift, f.name AS factory,\n               COUNT(DISTINCT wo.id) AS total_work_orders,\n               SUM(CASE WHEN wo.status = 'completed' THEN 1 ELSE 0 END) AS completed,\n               ROUND(100.0 * SUM(CASE WHEN wo.status='completed' THEN 1 ELSE 0 END) / COUNT(wo.id), 1) AS completion_rate_pct,\n               COALESCE(SUM(qi.defect_count), 0) AS total_defects,\n               SUM(CASE WHEN qi.result = 'fail' THEN 1 ELSE 0 END) AS failed_inspections\n        FROM employees e\n        JOIN factories f ON f.id = e.factory_id\n        LEFT JOIN work_orders wo ON wo.operator_id = e.id\n        LEFT JOIN quality_inspections qi ON qi.work_order_id = wo.id\n        WHERE e.active = 1\n        GROUP BY e.id\n        HAVING total_work_orders > 0\n        ORDER BY completion_rate_pct DESC, total_defects ASC\n    "


Placeholder == "?"

\* AppendIf with the value written into the text in place of the placeholder
AppendInterpolated(stmt, cond, clause, value) ==
  IF cond
  THEN [sql |-> stmt.sql \o SubSeq(clause, 1, Len(clause) - 1)
                  \o (IF value.t = "int" THEN ToString(value.v) ELSE "'" \o value.v \o "'"),
        args |-> stmt.args]
  ELSE stmt

\* sql += clause; args.append(value), when the condition holds
AppendIf(stmt, cond, clause, value) ==
  IF cond THEN [sql |-> stmt.sql \o clause, args |-> Append(stmt.args, value)]
  ELSE stmt

\* sql += text
AppendText(stmt, text) == [sql |-> stmt.sql \o text, args |-> stmt.args]

Statement(text) == [sql |-> text, args |-> <<>>]

list_factories(params) ==
  AppendText(
    AppendIf(Statement(Sql_list_factories),
             Truthy(params.factory_id), " AND f.id = ?", params.factory_id),
    " GROUP BY f.id ORDER BY f.name")

get_machines(params) ==
  AppendText(
    AppendIf(
      AppendIf(Statement(Sql_get_machines),
               Truthy(params.status), " AND m.status = ?", params.status),
      Truthy(params.factory_id), " AND f.id = ?", params.factory_id),
    " ORDER BY m.cumulative_downtime_hours DESC")

get_work_orders(params) ==
  AppendIf(
    AppendIf(
      AppendIf(
        AppendIf(Statement(Sql_get_work_orders),
                 Truthy(params.status), " AND wo.status = ?", params.status),
        Truthy(params.priority), " AND wo.priority = ?", params.priority),
      Truthy(params.factory_id), " AND f.id = ?", params.factory_id),
    TRUE, " ORDER BY wo.start_date DESC LIMIT ?", params.limit)

quality_summary(params) ==
  AppendIf(
    AppendIf(
      AppendIf(Statement(Sql_quality_summary),
               Truthy(params.result), " AND qi.result = ?", params.result),
      Truthy(params.factory_id), " AND f.id = ?", params.factory_id),
    TRUE, " GROUP BY f.name, qi.result, qi.defect_type ORDER BY total_defects DESC LIMIT ?",
    params.limit)

maintenance_report(params) ==
  AppendIf(
    AppendIf(
      AppendIf(Statement(Sql_maintenance_report),
               Truthy(params.machine_id), " AND ml.machine_id = ?", params.machine_id),
      Truthy(params.maintenance_type), " AND ml.maintenance_type = ?",
      params.maintenance_type),
    TRUE, " ORDER BY ml.maintenance_date DESC LIMIT ?", params.limit)

inventory_status == Statement(Sql_inventory_status)
supplier_performance == Statement(Sql_supplier_performance)
operator_performance == Statement(Sql_operator_performance)

RefusalText == "Error: Only SELECT statements are allowed."

\* run_query without its guard
run_query_unguarded(params) ==
  [refused |-> FALSE, sql |-> Strip(params.sql.v), args |-> <<>>]

\* the guard of run_query: the statement passed on, or the refusal
run_query(params) ==
  LET sql == Strip(params.sql.v) IN
  IF ~StartsWith(Lower(sql), "select")
  THEN [refused |-> TRUE, sql |-> sql, args |-> <<>>]
  ELSE [refused |-> FALSE, sql |-> sql, args |-> <<>>]

\* the statement an endpoint hands to query_db
Compose(ep, params) ==
  CASE ep = "list_factories" -> list_factories(params)
    [] ep = "get_machines" -> get_machines(params)
    [] ep = "get_work_orders" -> get_work_orders(params)
    [] ep = "quality_summary" -> quality_summary(params)
    [] ep = "maintenance_report" -> maintenance_report(params)
    [] ep = "inventory_status" -> inventory_status
    [] ep = "supplier_performance" -> supplier_performance
    [] ep = "operator_performance" -> operator_performance

(***************************************************************************)
(* The store: the tables of SCHEMA (src/seed_db.py).  A store maps the     *)
(* name of each table it holds to the table's rows in rowid order.  Of     *)
(* each table the columns are kept that some statement of the server       *)
(* joins, filters, groups, orders or computes on, and the name columns.    *)
(***************************************************************************)
Col(name, type, notNull, pk) ==
  [name |-> name, type |-> type, not_null |-> notNull, pk |-> pk]
Fk(from, toTable) == [from |-> from, to_table |-> toTable, to_col |-> "id"]
IdCol == Col("id", "INTEGER", FALSE, TRUE)

SCHEMA ==
  [factories |->
     [columns |-> <<IdCol, Col("name", "TEXT", TRUE, FALSE),
                    Col("active", "BOOLEAN", FALSE, FALSE)>>,
      fks |-> <<>>],
   production_lines |->
     [columns |-> <<IdCol, Col("factory_id", "INTEGER", TRUE, FALSE),
                    Col("name", "TEXT", TRUE, FALSE)>>,
      fks |-> <<Fk("factory_id", "factories")>>],
   machines |->
     [columns |-> <<IdCol, Col("production_line_id", "INTEGER", TRUE, FALSE),
                    Col("name", "TEXT", TRUE, FALSE), Col("status", "TEXT", FALSE, FALSE),
                    Col("cumulative_downtime_hours", "REAL", FALSE, FALSE)>>,
      fks |-> <<Fk("production_line_id", "production_lines")>>],
   employees |->
     [columns |-> <<IdCol, Col("name", "TEXT", TRUE, FALSE),
                    Col("factory_id", "INTEGER", TRUE, FALSE),
                    Col("shift", "TEXT", FALSE, FALSE), Col("active", "BOOLEAN", FALSE, FALSE)>>,
      fks |-> <<Fk("factory_id", "factories")>>],
   suppliers |->
     [columns |-> <<IdCol, Col("name", "TEXT", TRUE, FALSE),
                    Col("reliability_score", "REAL", FALSE, FALSE)>>,
      fks |-> <<>>],
   parts |->
     [columns |-> <<IdCol, Col("name", "TEXT", TRUE, FALSE),
                    Col("stock_quantity", "INTEGER", FALSE, FALSE),
                    Col("reorder_threshold", "INTEGER", FALSE, FALSE),
                    Col("supplier_id", "INTEGER", FALSE, FALSE)>>,
      fks |-> <<Fk("supplier_id", "suppliers")>>],
   purchase_orders |->
     [columns |-> <<IdCol, Col("supplier_id", "INTEGER", TRUE, FALSE),
                    Col("part_id", "INTEGER", TRUE, FALSE),
                    Col("expected_delivery", "TEXT", FALSE, FALSE),
                    Col("actual_delivery", "TEXT", FALSE, FALSE),
                    Col("status", "TEXT", FALSE, FALSE)>>,
      fks |-> <<Fk("part_id", "parts"), Fk("supplier_id", "suppliers")>>],
   work_orders |->
     [columns |-> <<IdCol, Col("production_line_id", "INTEGER", TRUE, FALSE),
                    Col("operator_id", "INTEGER", TRUE, FALSE),
                    Col("quantity_target", "INTEGER", TRUE, FALSE),
                    Col("quantity_produced", "INTEGER", FALSE, FALSE),
                    Col("start_date", "TEXT", FALSE, FALSE),
                    Col("end_date", "TEXT", FALSE, FALSE),
                    Col("status", "TEXT", FALSE, FALSE), Col("priority", "TEXT", FALSE, FALSE)>>,
      fks |-> <<Fk("operator_id", "employees"),
                Fk("production_line_id", "production_lines")>>],
   work_order_parts |->
     [columns |-> <<IdCol, Col("work_order_id", "INTEGER", TRUE, FALSE),
                    Col("part_id", "INTEGER", TRUE, FALSE),
                    Col("quantity_required", "INTEGER", TRUE, FALSE),
                    Col("quantity_used", "INTEGER", FALSE, FALSE)>>,
      fks |-> <<Fk("part_id", "parts"), Fk("work_order_id", "work_orders")>>],
   quality_inspections |->
     [columns |-> <<IdCol, Col("work_order_id", "INTEGER", TRUE, FALSE),
                    Col("inspector_id", "INTEGER", TRUE, FALSE),
                    Col("result", "TEXT", TRUE, FALSE), Col("defect_type", "TEXT", FALSE, FALSE),
                    Col("defect_count", "INTEGER", FALSE, FALSE)>>,
      fks |-> <<Fk("inspector_id", "employees"), Fk("work_order_id", "work_orders")>>],
   maintenance_logs |->
     [columns |-> <<IdCol, Col("machine_id", "INTEGER", TRUE, FALSE),
                    Col("technician_id", "INTEGER", TRUE, FALSE),
                    Col("maintenance_date", "TEXT", TRUE, FALSE),
                    Col("maintenance_type", "TEXT", TRUE, FALSE),
                    Col("downtime_hours", "REAL", TRUE, FALSE)>>,
      fks |-> <<Fk("machine_id", "machines"), Fk("technician_id", "employees")>>]]

TableNames == DOMAIN SCHEMA

ColumnNames(table) ==
  {SCHEMA[table].columns[k].name : k \in DOMAIN SCHEMA[table].columns}

\* rows as the seed inserts them, a few of each table
Factories ==
  <<[id |-> IntV(1), name |-> TextV("NordSteel Leipzig"), active |-> IntV(1)],
    [id |-> IntV(2), name |-> TextV("PolyFab Milano"), active |-> IntV(1)]>>

ProductionLines ==
  <<[id |-> IntV(1), factory_id |-> IntV(1), name |-> TextV("Steel Casting Line A")],
    [id |-> IntV(2), factory_id |-> IntV(2), name |-> TextV("Polymer Extrusion Line 1")]>>

Machines ==
  <<[id |-> IntV(1), production_line_id |-> IntV(1), name |-> TextV("Arc Furnace #1"),
     status |-> TextV("operational"), cumulative_downtime_hours |-> RealV(1200)],
    [id |-> IntV(2), production_line_id |-> IntV(1), name |-> TextV("Continuous Caster A"),
     status |-> TextV("operational"), cumulative_downtime_hours |-> RealV(800)],
    [id |-> IntV(3), production_line_id |-> IntV(2), name |-> TextV("Extruder PE-90"),
     status |-> TextV("maintenance"), cumulative_downtime_hours |-> RealV(2000)]>>

Employees ==
  <<[id |-> IntV(1), name |-> TextV("Lukas Becker"), factory_id |-> IntV(1),
     shift |-> TextV("morning"), active |-> IntV(1)],
    [id |-> IntV(2), name |-> TextV("Maria Rossi"), factory_id |-> IntV(2),
     shift |-> TextV("night"), active |-> IntV(1)]>>

Suppliers ==
  <<[id |-> IntV(1), name |-> TextV("ThyssenKrupp Materials"), reliability_score |-> RealV(91)],
    [id |-> IntV(2), name |-> TextV("SABIC Europe"), reliability_score |-> RealV(84)]>>

PurchaseOrders ==
  <<[id |-> IntV(1), supplier_id |-> IntV(1), part_id |-> IntV(1),
     expected_delivery |-> DateV(40), actual_delivery |-> Null, status |-> TextV("pending")],
    [id |-> IntV(2), supplier_id |-> IntV(2), part_id |-> IntV(2),
     expected_delivery |-> DateV(30), actual_delivery |-> DateV(33),
     status |-> TextV("delivered")]>>

WorkOrders ==
  <<[id |-> IntV(1), production_line_id |-> IntV(1), operator_id |-> IntV(1),
     quantity_target |-> IntV(100), quantity_produced |-> IntV(100),
     start_date |-> DateV(10), end_date |-> DateV(14),
     status |-> TextV("completed"), priority |-> TextV("high")],
    [id |-> IntV(2), production_line_id |-> IntV(2), operator_id |-> IntV(2),
     quantity_target |-> IntV(60), quantity_produced |-> IntV(20),
     start_date |-> DateV(12), end_date |-> Null,
     status |-> TextV("in_progress"), priority |-> TextV("low")],
    [id |-> IntV(3), production_line_id |-> IntV(1), operator_id |-> IntV(1),
     quantity_target |-> IntV(80), quantity_produced |-> IntV(0),
     start_date |-> DateV(15), end_date |-> Null,
     status |-> TextV("planned"), priority |-> TextV("high")]>>

WorkOrderParts ==
  <<[id |-> IntV(1), work_order_id |-> IntV(1), part_id |-> IntV(1),
     quantity_required |-> IntV(5), quantity_used |-> IntV(5)]>>

QualityInspections ==
  <<[id |-> IntV(1), work_order_id |-> IntV(1), inspector_id |-> IntV(2),
     result |-> TextV("pass"), defect_type |-> Null, defect_count |-> IntV(0)],
    [id |-> IntV(2), work_order_id |-> IntV(1), inspector_id |-> IntV(2),
     result |-> TextV("fail"), defect_type |-> TextV("Porosity"), defect_count |-> IntV(3)],
    [id |-> IntV(3), work_order_id |-> IntV(2), inspector_id |-> IntV(1),
     result |-> TextV("fail"), defect_type |-> TextV("Porosity"), defect_count |-> IntV(2)]>>

MaintenanceLogs ==
  <<[id |-> IntV(1), machine_id |-> IntV(1), technician_id |-> IntV(1),
     maintenance_date |-> DateV(20), maintenance_type |-> TextV("preventive"),
     downtime_hours |-> RealV(25)],
    [id |-> IntV(2), machine_id |-> IntV(3), technician_id |-> IntV(2),
     maintenance_date |-> DateV(22), maintenance_type |-> TextV("emergency"),
     downtime_hours |-> RealV(300)]>>

\* stock levels around the default reorder threshold of the schema
StockValues == {10, 40, 50, 80}
ReorderThreshold == 50

Part(i, stock) ==
  [id |-> IntV(i), name |-> TextV("SKU-" \o ToString(1000 + i)),
   stock_quantity |-> IntV(stock), reorder_threshold |-> IntV(ReorderThreshold),
   supplier_id |-> IntV(1)]

\* every content of the parts table with MaxParts rows
PartsContents ==
  {[i \in 1..MaxParts |-> Part(i, stocks[i])] : stocks \in [1..MaxParts -> StockValues]}

Seeded(parts) ==
  [factories |-> Factories, production_lines |-> ProductionLines, machines |-> Machines,
   employees |-> Employees, suppliers |-> Suppliers, parts |-> parts,
   purchase_orders |-> PurchaseOrders, work_orders |-> WorkOrders,
   work_order_parts |-> WorkOrderParts, quality_inspections |-> QualityInspections,
   maintenance_logs |-> MaintenanceLogs]

\* the store sqlite3.connect creates when no database file exists yet
EmptyStore == <<>>

\* the store while seed runs executescript(SCHEMA), each CREATE TABLE
\* committed on its own: the first three tables are there, no row yet
Creating == [t \in {"factories", "production_lines", "machines"} |-> <<>>]

Stores == {Seeded(p) : p \in PartsContents} \cup {EmptyStore}

(***************************************************************************)
(* The relational engine behind conn.execute: what SQLite computes for the *)
(* statements the server issues.                                           *)
(***************************************************************************)
RECURSIVE Concat(_)
\* the concatenation of a sequence of sequences
Concat(ss) ==
  IF ss = <<>> THEN <<>>
  ELSE IF Len(ss) = 1 THEN ss[1]
  ELSE Concat(SubSeq(ss, 1, Len(ss) \div 2)) \o Concat(SubSeq(ss, Len(ss) \div 2 + 1, Len(ss)))

RECURSIVE SumSeq(_)
SumSeq(ns) == IF ns = <<>> THEN 0 ELSE Head(ns) + SumSeq(Tail(ns))

RECURSIVE Distinct(_)
\* the distinct elements of a sequence in order of first appearance
Distinct(s) ==
  IF s = <<>> THEN <<>>
  ELSE LET d == Distinct(SubSeq(s, 1, Len(s) - 1)) IN
       IF \E k \in DOMAIN d : d[k] = s[Len(s)] THEN d ELSE Append(d, s[Len(s)])

\* LIMIT n: a negative n is no limit
Take(s, n) == IF n < 0 \/ n >= Len(s) THEN s ELSE SubSeq(s, 1, n)

\* a stable sort by a strict weak order
SortBy(s, Less(_, _)) ==
  LET n == Len(s)
      Before(i, j) == Less(s[i], s[j]) \/ (~Less(s[j], s[i]) /\ i < j)
      rank == [i \in 1..n |-> Cardinality({j \in 1..n : j /= i /\ Before(j, i)})] @@ <<>>
  IN  [k \in 1..n |-> s[CHOOSE i \in 1..n : rank[i] = k - 1]]

\* storage classes in sort order: NULL, then numbers (and dates), then text
ClassOf(x) == IF x.t = "null" THEN 0 ELSE IF x.t = "text" THEN 2 ELSE 1

\* a < b in ORDER BY
ValLess(a, b) ==
  IF ClassOf(a) /= ClassOf(b) THEN ClassOf(a) < ClassOf(b)
  ELSE IF ClassOf(a) = 0 THEN FALSE
  ELSE IF ClassOf(a) = 2 THEN StrLess(a.v, b.v)
  ELSE a.v < b.v

\* n / d rounded to the nearest integer, halves away from zero (d > 0)
RoundDiv(n, d) ==
  IF n >= 0 THEN (2 * n + d) \div (2 * d) ELSE 0 - ((2 * (0 - n) + d) \div (2 * d))

\* ROUND(100.0 * num / den, 1); a division by zero is NULL
RoundPct(num, den) ==
  IF num.t /= "int" \/ den.t /= "int" \/ den.v = 0 THEN Null
  ELSE IF den.v > 0 THEN RealV(RoundDiv(1000 * num.v, den.v))
  ELSE RealV(RoundDiv(0 - 1000 * num.v, 0 - den.v))

\* the columns of a row under the alias of its table
Qualify(alias, row) ==
  [k \in {alias \o "." \o c : c \in DOMAIN row} |-> row[Drop(k, Len(alias) + 1)]]

NullRow(alias, table) ==
  [k \in {alias \o "." \o c : c \in ColumnNames(table)} |-> Null]

From(alias, rows) == [i \in DOMAIN rows |-> Qualify(alias, rows[i])]

\* left JOIN rows alias ON On
Join(left, alias, rows, On(_)) ==
  Concat([i \in DOMAIN left |->
            SelectSeq([k \in DOMAIN rows |-> left[i] @@ Qualify(alias, rows[k])], On)])

\* left LEFT JOIN rows alias ON On
LeftJoin(left, alias, table, rows, On(_)) ==
  Concat([i \in DOMAIN left |->
            LET m == SelectSeq([k \in DOMAIN rows |-> left[i] @@ Qualify(alias, rows[k])], On)
            IN  IF m = <<>> THEN <<left[i] @@ NullRow(alias, table)>> ELSE m])

\* a WHERE clause that keeps every row
PredsIgnored(j, preds) == TRUE

\* the WHERE predicates appended to a template, each "col = ?" with its value
PredsHold(j, preds) == \A k \in DOMAIN preds : SqlEq(j[preds[k].col], preds[k].val)

\* GROUP BY: the groups in order of first appearance of their key
GroupBy(rows, Key(_)) ==
  LET keys == Distinct([i \in DOMAIN rows |-> Key(rows[i])])
  IN  [g \in DOMAIN keys |-> SelectSeq(rows, LAMBDA r : Key(r) = keys[g])]

\* COUNT(col) and COUNT(DISTINCT col) over a group
CountCol(group, col) == Len(SelectSeq(group, LAMBDA r : r[col].t /= "null"))
CountDistinct(group, col) ==
  Cardinality({group[i][col] : i \in DOMAIN group} \ {Null})

\* SUM(CASE WHEN col = 'text' THEN 1 ELSE 0 END) over a group
CountWhere(group, col, text) ==
  Len(SelectSeq(group, LAMBDA r : SqlEq(r[col], TextV(text))))

\* SUM(col) over a group: NULL when no row has a value
SumCol(group, col) ==
  LET vals == SelectSeq(group, LAMBDA r : r[col].t /= "null")
  IN  IF vals = <<>> THEN Null ELSE IntV(SumSeq([i \in DOMAIN vals |-> vals[i][col].v]))

\* the value of a column of a result row (a dict in column order)
Get(row, col) == row[CHOOSE k \in DOMAIN row : row[k][1] = col][2]

\* list_factories: active factories with their counts of lines and machines
Rows_list_factories(db, preds) ==
  LET f  == From("f", db.factories)
      pl == LeftJoin(f, "pl", "production_lines", db.production_lines,
                     LAMBDA j : SqlEq(j["pl.factory_id"], j["f.id"]))
      m  == LeftJoin(pl, "m", "machines", db.machines,
                     LAMBDA j : SqlEq(j["m.production_line_id"], j["pl.id"]))
      w  == SelectSeq(m, LAMBDA j : SqlEq(j["f.active"], IntV(1)) /\ PredsHold(j, preds))
      g  == GroupBy(w, LAMBDA j : j["f.id"])
      out == [k \in DOMAIN g |->
                <<<<"id", g[k][1]["f.id"]>>, <<"name", g[k][1]["f.name"]>>,
                  <<"production_lines", IntV(CountDistinct(g[k], "pl.id"))>>,
                  <<"machines", IntV(CountDistinct(g[k], "m.id"))>>>>]
  IN  SortBy(out, LAMBDA a, b : ValLess(Get(a, "name"), Get(b, "name")))

\* get_machines: machines with line and factory, most downtime first
Rows_get_machines(db, preds) ==
  LET m  == From("m", db.machines)
      pl == Join(m, "pl", db.production_lines,
                 LAMBDA j : SqlEq(j["pl.id"], j["m.production_line_id"]))
      f  == Join(pl, "f", db.factories, LAMBDA j : SqlEq(j["f.id"], j["pl.factory_id"]))
      w  == SelectSeq(f, LAMBDA j : PredsHold(j, preds))
      s  == SortBy(w, LAMBDA a, b : ValLess(b["m.cumulative_downtime_hours"],
                                            a["m.cumulative_downtime_hours"]))
  IN  [k \in DOMAIN s |->
         <<<<"id", s[k]["m.id"]>>, <<"name", s[k]["m.name"]>>,
           <<"status", s[k]["m.status"]>>,
           <<"cumulative_downtime_hours", s[k]["m.cumulative_downtime_hours"]>>,
           <<"production_line", s[k]["pl.name"]>>, <<"factory", s[k]["f.name"]>>>>]

\* get_work_orders: work orders with completion rate, latest start first
Rows_get_work_orders(db, preds, limit) ==
  LET wo == From("wo", db.work_orders)
      e  == Join(wo, "e", db.employees, LAMBDA j : SqlEq(j["e.id"], j["wo.operator_id"]))
      pl == Join(e, "pl", db.production_lines,
                 LAMBDA j : SqlEq(j["pl.id"], j["wo.production_line_id"]))
      f  == Join(pl, "f", db.factories, LAMBDA j : SqlEq(j["f.id"], j["pl.factory_id"]))
      w  == SelectSeq(f, LAMBDA j : PredsHold(j, preds))
      s  == Take(SortBy(w, LAMBDA a, b : ValLess(b["wo.start_date"], a["wo.start_date"])),
                 limit)
  IN  [k \in DOMAIN s |->
         <<<<"id", s[k]["wo.id"]>>, <<"status", s[k]["wo.status"]>>,
           <<"priority", s[k]["wo.priority"]>>,
           <<"quantity_target", s[k]["wo.quantity_target"]>>,
           <<"quantity_produced", s[k]["wo.quantity_produced"]>>,
           <<"completion_pct",
             RoundPct(s[k]["wo.quantity_produced"], s[k]["wo.quantity_target"])>>,
           <<"start_date", s[k]["wo.start_date"]>>, <<"end_date", s[k]["wo.end_date"]>>,
           <<"operator", s[k]["e.name"]>>, <<"production_line", s[k]["pl.name"]>>,
           <<"factory", s[k]["f.name"]>>>>]

\* quality_summary: inspections grouped by factory, result and defect type
Rows_quality_summary(db, preds, limit) ==
  LET qi == From("qi", db.quality_inspections)
      wo == Join(qi, "wo", db.work_orders, LAMBDA j : SqlEq(j["wo.id"], j["qi.work_order_id"]))
      pl == Join(wo, "pl", db.production_lines,
                 LAMBDA j : SqlEq(j["pl.id"], j["wo.production_line_id"]))
      f  == Join(pl, "f", db.factories, LAMBDA j : SqlEq(j["f.id"], j["pl.factory_id"]))
      w  == SelectSeq(f, LAMBDA j : PredsHold(j, preds))
      g  == GroupBy(w, LAMBDA j : <<j["f.name"], j["qi.result"], j["qi.defect_type"]>>)
      out == [k \in DOMAIN g |->
                <<<<"factory", g[k][1]["f.name"]>>, <<"result", g[k][1]["qi.result"]>>,
                  <<"count", IntV(Len(g[k]))>>,
                  <<"total_defects", SumCol(g[k], "qi.defect_count")>>,
                  <<"defect_type", g[k][1]["qi.defect_type"]>>>>]
  IN  Take(SortBy(out, LAMBDA a, b : ValLess(Get(b, "total_defects"),
                                             Get(a, "total_defects"))),
           limit)

\* maintenance_report: maintenance logs with machine and factory, latest first
Rows_maintenance_report(db, preds, limit) ==
  LET ml == From("ml", db.maintenance_logs)
      m  == Join(ml, "m", db.machines, LAMBDA j : SqlEq(j["m.id"], j["ml.machine_id"]))
      pl == Join(m, "pl", db.production_lines,
                 LAMBDA j : SqlEq(j["pl.id"], j["m.production_line_id"]))
      f  == Join(pl, "f", db.factories, LAMBDA j : SqlEq(j["f.id"], j["pl.factory_id"]))
      e  == Join(f, "e", db.employees, LAMBDA j : SqlEq(j["e.id"], j["ml.technician_id"]))
      w  == SelectSeq(e, LAMBDA j : PredsHold(j, preds))
      s  == Take(SortBy(w, LAMBDA a, b : ValLess(b["ml.maintenance_date"],
                                                 a["ml.maintenance_date"])),
                 limit)
  IN  [k \in DOMAIN s |->
         <<<<"id", s[k]["ml.id"]>>, <<"maintenance_date", s[k]["ml.maintenance_date"]>>,
           <<"maintenance_type", s[k]["ml.maintenance_type"]>>,
           <<"downtime_hours", s[k]["ml.downtime_hours"]>>,
           <<"machine", s[k]["m.name"]>>, <<"machine_status", s[k]["m.status"]>>,
           <<"factory", s[k]["f.name"]>>, <<"technician", s[k]["e.name"]>>>>]

\* CASE WHEN p.stock_quantity < p.reorder_threshold THEN 'LOW STOCK' ELSE 'OK' END
StockStatus(stock, threshold) ==
  IF stock.t = "int" /\ threshold.t = "int" /\ stock.v < threshold.v
  THEN TextV("LOW STOCK") ELSE TextV("OK")

\* ORDER BY stock_status DESC, p.stock_quantity ASC
InventoryBefore(a, b) ==
  \/ ValLess(Get(b, "stock_status"), Get(a, "stock_status"))
  \/ /\ Get(a, "stock_status") = Get(b, "stock_status")
     /\ ValLess(Get(a, "stock_quantity"), Get(b, "stock_quantity"))

\* inventory_status: parts with stock flag and open purchase orders
Rows_inventory_status(db) ==
  LET p  == From("p", db.parts)
      s  == Join(p, "s", db.suppliers, LAMBDA j : SqlEq(j["s.id"], j["p.supplier_id"]))
      po == LeftJoin(s, "po", "purchase_orders", db.purchase_orders,
                     LAMBDA j : /\ SqlEq(j["po.part_id"], j["p.id"])
                                /\ \/ SqlEq(j["po.status"], TextV("pending"))
                                   \/ SqlEq(j["po.status"], TextV("shipped")))
      g  == GroupBy(po, LAMBDA j : j["p.id"])
      out == [k \in DOMAIN g |->
                <<<<"id", g[k][1]["p.id"]>>, <<"name", g[k][1]["p.name"]>>,
                  <<"stock_quantity", g[k][1]["p.stock_quantity"]>>,
                  <<"reorder_threshold", g[k][1]["p.reorder_threshold"]>>,
                  <<"stock_status", StockStatus(g[k][1]["p.stock_quantity"],
                                                g[k][1]["p.reorder_threshold"])>>,
                  <<"supplier", g[k][1]["s.name"]>>,
                  <<"reliability_score", g[k][1]["s.reliability_score"]>>,
                  <<"open_purchase_orders", IntV(CountCol(g[k], "po.id"))>>>>]
  IN  SortBy(out, InventoryBefore)

\* ROUND(AVG(julianday(actual) - julianday(expected)), 1) over the rows with both
AvgDelay(group) ==
  LET d == SelectSeq(group, LAMBDA r : /\ r["po.actual_delivery"].t /= "null"
                                       /\ r["po.expected_delivery"].t /= "null")
  IN  IF d = <<>> THEN Null
      ELSE RealV(RoundDiv(10 * SumSeq([i \in DOMAIN d |->
                                         d[i]["po.actual_delivery"].v
                                           - d[i]["po.expected_delivery"].v]),
                          Len(d)))

\* supplier_performance: order counts and mean delay per supplier
Rows_supplier_performance(db) ==
  LET s  == From("s", db.suppliers)
      po == LeftJoin(s, "po", "purchase_orders", db.purchase_orders,
                     LAMBDA j : SqlEq(j["po.supplier_id"], j["s.id"]))
      g  == GroupBy(po, LAMBDA j : j["s.id"])
      out == [k \in DOMAIN g |->
                <<<<"supplier", g[k][1]["s.name"]>>,
                  <<"reliability_score", g[k][1]["s.reliability_score"]>>,
                  <<"total_orders", IntV(CountCol(g[k], "po.id"))>>,
                  <<"delivered", IntV(CountWhere(g[k], "po.status", "delivered"))>>,
                  <<"pending", IntV(CountWhere(g[k], "po.status", "pending"))>>,
                  <<"cancelled", IntV(CountWhere(g[k], "po.status", "cancelled"))>>,
                  <<"avg_delay_days", AvgDelay(g[k])>>>>]
  IN  SortBy(out, LAMBDA a, b : ValLess(Get(b, "reliability_score"),
                                        Get(a, "reliability_score")))

\* ORDER BY completion_rate_pct DESC, total_defects ASC
OperatorBefore(a, b) ==
  \/ ValLess(Get(b, "completion_rate_pct"), Get(a, "completion_rate_pct"))
  \/ /\ Get(a, "completion_rate_pct") = Get(b, "completion_rate_pct")
     /\ ValLess(Get(a, "total_defects"), Get(b, "total_defects"))

\* operator_performance: completion and defects per active operator
Rows_operator_performance(db) ==
  LET e  == From("e", db.employees)
      f  == Join(e, "f", db.factories, LAMBDA j : SqlEq(j["f.id"], j["e.factory_id"]))
      wo == LeftJoin(f, "wo", "work_orders", db.work_orders,
                     LAMBDA j : SqlEq(j["wo.operator_id"], j["e.id"]))
      qi == LeftJoin(wo, "qi", "quality_inspections", db.quality_inspections,
                     LAMBDA j : SqlEq(j["qi.work_order_id"], j["wo.id"]))
      w  == SelectSeq(qi, LAMBDA j : SqlEq(j["e.active"], IntV(1)))
      g  == GroupBy(w, LAMBDA j : j["e.id"])
      out == [k \in DOMAIN g |->
                <<<<"operator", g[k][1]["e.name"]>>, <<"shift", g[k][1]["e.shift"]>>,
                  <<"factory", g[k][1]["f.name"]>>,
                  <<"total_work_orders", IntV(CountDistinct(g[k], "wo.id"))>>,
                  <<"completed", IntV(CountWhere(g[k], "wo.status", "completed"))>>,
                  <<"completion_rate_pct",
                    RoundPct(IntV(CountWhere(g[k], "wo.status", "completed")),
                             IntV(CountCol(g[k], "wo.id")))>>,
                  <<"total_defects",
                    IF SumCol(g[k], "qi.defect_count").t = "null" THEN IntV(0)
                    ELSE SumCol(g[k], "qi.defect_count")>>,
                  <<"failed_inspections", IntV(CountWhere(g[k], "qi.result", "fail"))>>>>]
      h  == SelectSeq(out, LAMBDA r : Get(r, "total_work_orders").v > 0)
  IN  SortBy(h, OperatorBefore)

(***************************************************************************)
(* Statements.  A statement that starts with the text of a template is     *)
(* read as that template followed by " AND <column> = ?" predicates and    *)
(* the template's closing clauses; any other statement is read token by    *)
(* token.                                                                  *)
(***************************************************************************)
Template(ep, text, from, tail) == [ep |-> ep, text |-> text, from |-> from, tail |-> tail]

\* from: the aliases of the FROM clause with their tables, in order
Templates ==
  <<Template("list_factories", Sql_list_factories,
             <<<<"f", "factories">>, <<"pl", "production_lines">>, <<"m", "machines">>>>,
             " GROUP BY f.id ORDER BY f.name"),
    Template("get_machines", Sql_get_machines,
             <<<<"m", "machines">>, <<"pl", "production_lines">>, <<"f", "factories">>>>,
             " ORDER BY m.cumulative_downtime_hours DESC"),
    Template("get_work_orders", Sql_get_work_orders,
             <<<<"wo", "work_orders">>, <<"e", "employees">>, <<"pl", "production_lines">>,
               <<"f", "factories">>>>,
             " ORDER BY wo.start_date DESC"),
    Template("quality_summary", Sql_quality_summary,
             <<<<"qi", "quality_inspections">>, <<"wo", "work_orders">>,
               <<"pl", "production_lines">>, <<"f", "factories">>>>,
             " GROUP BY f.name, qi.result, qi.defect_type ORDER BY total_defects DESC"),
    Template("maintenance_report", Sql_maintenance_report,
             <<<<"ml", "maintenance_logs">>, <<"m", "machines">>,
               <<"pl", "production_lines">>, <<"f", "factories">>, <<"e", "employees">>>>,
             " ORDER BY ml.maintenance_date DESC"),
    Template("inventory_status", Sql_inventory_status,
             <<<<"p", "parts">>, <<"s", "suppliers">>, <<"po", "purchase_orders">>>>, ""),
    Template("supplier_performance", Sql_supplier_performance,
             <<<<"s", "suppliers">>, <<"po", "purchase_orders">>>>, ""),
    Template("operator_performance", Sql_operator_performance,
             <<<<"e", "employees">>, <<"f", "factories">>, <<"wo", "work_orders">>,
               <<"qi", "quality_inspections">>>>, "")>>

\* the columns a predicate of the template may name
TemplateColumns(t) ==
  UNION {{t.from[k][1] \o "." \o c : c \in ColumnNames(t.from[k][2])} : k \in DOMAIN t.from}

RECURSIVE ParseWhere(_, _)
\* the columns of the leading " AND <column> = ?" clauses of rest, and what follows
ParseWhere(rest, acc) ==
  IF StartsWith(rest, " AND ") /\ Find(Drop(rest, 5), " = ?") > 0
  THEN LET body == Drop(rest, 5)
           eq == Find(body, " = ?")
       IN  ParseWhere(Drop(body, eq + 3), Append(acc, SubSeq(body, 1, eq - 1)))
  ELSE [cols |-> acc, rest |-> rest]

Ok(rows, db) == [ok |-> TRUE, rows |-> rows, db |-> db]
Fails(type, msg, db) == [ok |-> FALSE, type |-> type, msg |-> msg, db |-> db]

TemplateRows(ep, db, preds, limit) ==
  CASE ep = "list_factories" -> Rows_list_factories(db, preds)
    [] ep = "get_machines" -> Rows_get_machines(db, preds)
    [] ep = "get_work_orders" -> Rows_get_work_orders(db, preds, limit)
    [] ep = "quality_summary" -> Rows_quality_summary(db, preds, limit)
    [] ep = "maintenance_report" -> Rows_maintenance_report(db, preds, limit)
    [] ep = "inventory_status" -> Rows_inventory_status(db)
    [] ep = "supplier_performance" -> Rows_supplier_performance(db)
    [] ep = "operator_performance" -> Rows_operator_performance(db)

\* a statement that starts with the text of template t
ExecuteTemplate(t, db, sql, args) ==
  LET w == ParseWhere(Drop(sql, Len(t.text)), <<>>)
      limited == w.rest = t.tail \o " LIMIT ?"
      missing == SelectSeq(t.from, LAMBDA a : a[2] \notin DOMAIN db)
      unknown == SelectSeq(w.cols, LAMBDA c : c \notin TemplateColumns(t))
      holes == Len(w.cols) + (IF limited THEN 1 ELSE 0)
  IN  IF w.rest /= t.tail /\ ~limited
        THEN Fails("OperationalError", "near \"" \o w.rest \o "\": syntax error", db)
      ELSE IF missing /= <<>>
        THEN Fails("OperationalError", "no such table: " \o missing[1][2], db)
      ELSE IF unknown /= <<>>
        THEN Fails("OperationalError", "no such column: " \o unknown[1], db)
      ELSE IF holes /= Len(args)
        THEN Fails("ProgrammingError", "Incorrect number of bindings supplied.", db)
      ELSE IF limited /\ args[holes].t /= "int"
        THEN Fails("IntegrityError", "datatype mismatch", db)
      ELSE Ok(TemplateRows(t.ep, db,
                           [k \in DOMAIN w.cols |-> [col |-> w.cols[k], val |-> args[k]]],
                           IF limited THEN args[holes].v ELSE 0 - 1),
              db)

RECURSIVE Tokens(_, _, _)
\* the tokens of s: maximal runs without white space, ";" a token of its own
Tokens(s, cur, acc) ==
  LET flush == IF cur = "" THEN acc ELSE Append(acc, cur) IN
  IF s = "" THEN flush
  ELSE IF IsSpace(CharAt(s, 1)) THEN Tokens(Drop(s, 1), "", flush)
  ELSE IF CharAt(s, 1) = ";" THEN Tokens(Drop(s, 1), "", Append(flush, ";"))
  ELSE Tokens(Drop(s, 1), cur \o CharAt(s, 1), acc)

IsDigit(c) == Code(c) >= 48 /\ Code(c) <= 57

RECURSIVE IsNumber(_)
IsNumber(s) == s /= "" /\ IsDigit(CharAt(s, Len(s))) /\ (Len(s) = 1 \/ IsNumber(SubSeq(s, 1, Len(s) - 1)))

RECURSIVE ToInt(_)
ToInt(s) == IF s = "" THEN 0 ELSE 10 * ToInt(SubSeq(s, 1, Len(s) - 1)) + Code(CharAt(s, Len(s))) - 48

\* the rows of a table as dicts in column order
TableRows(db, table) ==
  [i \in DOMAIN db[table] |->
     [k \in DOMAIN SCHEMA[table].columns |->
        <<SCHEMA[table].columns[k].name, db[table][i][SCHEMA[table].columns[k].name]>>]]

\* the store without a table
DropTable(db, table) == [n \in DOMAIN db \ {table} |-> db[n]]

\* one statement given as tokens t, keywords and names in lower case in k
ExecuteTokens(t, k, db) ==
  IF t = <<>> THEN Ok(<<>>, db)
  ELSE IF k[1] = "select" THEN
    IF k = <<"select", "1">> THEN Ok(<<<<<<"1", IntV(1)>>>>>>, db)
    ELSE IF Len(k) \in {4, 8} /\ SubSeq(k, 2, 3) = <<"*", "from">>
            /\ (Len(k) = 8 => SubSeq(k, 5, 7) = <<"where", "id", "=">> /\ IsNumber(k[8]))
      THEN IF k[4] \notin DOMAIN db
             THEN Fails("OperationalError", "no such table: " \o t[4], db)
           ELSE IF Len(k) = 4 THEN Ok(TableRows(db, k[4]), db)
           ELSE Ok(SelectSeq(TableRows(db, k[4]),
                             LAMBDA r : SqlEq(Get(r, "id"), IntV(ToInt(k[8])))), db)
    ELSE Fails("OperationalError", "near \"" \o t[Len(t)] \o "\": syntax error", db)
  ELSE IF Len(k) = 3 /\ SubSeq(k, 1, 2) = <<"drop", "table">> THEN
    \* DDL runs outside any transaction: it is durable at once
    IF k[3] \in DOMAIN db THEN Ok(<<>>, DropTable(db, k[3]))
    ELSE Fails("OperationalError", "no such table: " \o t[3], db)
  ELSE IF Len(k) >= 4 /\ k[1] = "update" /\ k[3] = "set" THEN
    \* DML opens a transaction that query_db never commits: close() rolls it back
    IF k[2] \in DOMAIN db THEN Ok(<<>>, db)
    ELSE Fails("OperationalError", "no such table: " \o t[2], db)
  ELSE Fails("OperationalError", "near \"" \o t[1] \o "\": syntax error", db)

\* a statement that is no template: sqlite3 runs one statement per execute
ExecuteText(db, sql) ==
  LET toks == Tokens(sql, "", <<>>)
      semi == IF \E i \in DOMAIN toks : toks[i] = ";"
              THEN CHOOSE i \in DOMAIN toks : toks[i] = ";" /\ \A j \in 1..(i - 1) : toks[j] /= ";"
              ELSE Len(toks) + 1
      first == SubSeq(toks, 1, semi - 1)
  IN  IF semi < Len(toks)
      THEN Fails("ProgrammingError", "You can only execute one statement at a time.", db)
      ELSE ExecuteTokens(first, [i \in DOMAIN first |-> Lower(first[i])], db)

\* conn.execute(sql, params).fetchall() against the store db
Execute(db, sql, args) ==
  IF \E i \in DOMAIN Templates : StartsWith(sql, Templates[i].text)
  THEN ExecuteTemplate(Templates[CHOOSE i \in DOMAIN Templates : StartsWith(sql, Templates[i].text)],
                       db, sql, args)
  ELSE IF args /= <<>>
  THEN Fails("ProgrammingError", "Incorrect number of bindings supplied.", db)
  ELSE ExecuteText(db, sql)

(***************************************************************************)
(* Result formatting.                                                      *)
(***************************************************************************)
RECURSIVE JoinStr(_, _)
\* sep.join(parts)
JoinStr(parts, sep) ==
  IF parts = <<>> THEN ""
  ELSE IF Len(parts) = 1 THEN parts[1]
  ELSE JoinStr(SubSeq(parts, 1, Len(parts) \div 2), sep) \o sep
         \o JoinStr(SubSeq(parts, Len(parts) \div 2 + 1, Len(parts)), sep)

\* a REAL held in tenths, as Python prints the float
RealText(n) ==
  IF n >= 0 THEN ToString(n \div 10) \o "." \o ToString(n % 10)
  ELSE "-" \o ToString((0 - n) \div 10) \o "." \o ToString((0 - n) % 10)

\* the JSON text of a scalar
JsonValue(x) ==
  CASE x.t = "null" -> "null"
    [] x.t = "int" -> ToString(x.v)
    [] x.t = "real" -> RealText(x.v)
    [] x.t = "date" -> "\"" \o ToString(x.v) \o "\""
    [] x.t = "text" -> "\"" \o x.v \o "\""

JsonRow(row) ==
  "  {\n"
    \o JoinStr([k \in DOMAIN row |-> "    \"" \o row[k][1] \o "\": " \o JsonValue(row[k][2])],
               ",\n")
    \o "\n  }"

\* json.dumps(rows, indent=2, default=str) of a list of dicts
JsonDumps(rows) ==
  IF rows = <<>> THEN "[]"
  ELSE "[\n" \o JoinStr([k \in DOMAIN rows |-> JsonRow(rows[k])], ",\n") \o "\n]"

NoResults == "No results found."

\* fmt without the sentinel
fmt_dumps(rows) == JsonDumps(rows)

fmt(rows) == IF rows = <<>> THEN NoResults ELSE JsonDumps(rows)

\* one entry of the result of get_schema
SchemaEntry(table, cols, fks) ==
  "  \"" \o table \o "\": {\n    \"columns\": ["
    \o JoinStr([k \in DOMAIN cols |-> "\"" \o cols[k].name \o " " \o cols[k].type \o "\""], ", ")
    \o "],\n    \"foreign_keys\": ["
    \o JoinStr([k \in DOMAIN fks |->
                  "\"" \o fks[k].from \o " -> " \o fks[k].to_table \o "." \o fks[k].to_col \o "\""],
               ", ")
    \o "]\n  }"

\* json.dumps(result, indent=2) of the schema dict
SchemaDumps(entries) ==
  IF entries = <<>> THEN "{}" ELSE "{\n" \o JoinStr(entries, ",\n") \o "\n}"

(***************************************************************************)
(* Invocations.  Each tool invocation runs in a slot; a slot records where *)
(* the invocation stands in the code of its tool.                          *)
(***************************************************************************)
VARIABLES
  db,     \* the store behind DB_PATH
  conns,  \* the sqlite3 connections that exist: id -> owner, open, users
  inv,    \* slot -> the invocation running in it
  seeding \* the run of seed_db.py in progress, if any

vars == <<db, conns, inv, seeding>>

Slots == 1..MaxInv

\* no run of the seed script is in progress; runs counts the runs that ended
NotSeeding == [pc |-> "idle", step |-> 0, draw |-> 0, tx |-> <<>>, runs |-> 0]

NoOutcome == [kind |-> "none"]
Returned(text) == [kind |-> "returned", text |-> text]
Raised(type, msg) == [kind |-> "raised", type |-> type, msg |-> msg]

Nothing == [kind |-> "none"]
GotRows(rows) == [kind |-> "rows", rows |-> rows]
GotError(type, msg) == [kind |-> "error", type |-> type, msg |-> msg]
GotSchema(todo, entries) == [kind |-> "schema", todo |-> todo, entries |-> entries]

Idle ==
  [pc |-> "idle", ep |-> "", raw |-> <<>>, params |-> <<>>, sql |-> "", args |-> <<>>,
   conn |-> 0, executes |-> 0, pending |-> Nothing, outcome |-> NoOutcome]

\* the invocations between connect and close
InFlight(i) == inv[i].pc \in {"connect", "execute", "list_tables", "table_info", "close"}

\* the transport hands a call to the lowest free slot
FreeSlot(i) == inv[i].pc = "idle" /\ \A j \in 1..(i - 1) : inv[j].pc /= "idle"

\* the invocation up to its first use of the store: validation of the argument,
\* then the body of the tool up to the call of query_db (or sqlite3.connect)
Begin(ep, raw) ==
  IF ~Valid(ep, raw)
  THEN [Idle EXCEPT !.pc = "done", !.ep = ep, !.raw = raw,
                    !.outcome = Raised("ValidationError", "")]
  ELSE IF ep = "get_schema"
  THEN [Idle EXCEPT !.pc = "connect", !.ep = ep, !.raw = raw]
  ELSE IF ep = "run_query"
  THEN LET g == run_query(Params(ep, raw)) IN
       IF g.refused
       THEN [Idle EXCEPT !.pc = "done", !.ep = ep, !.raw = raw,
                         !.params = Params(ep, raw), !.outcome = Returned(RefusalText)]
       ELSE [Idle EXCEPT !.pc = "connect", !.ep = ep, !.raw = raw,
                         !.params = Params(ep, raw), !.sql = g.sql, !.args = g.args]
  ELSE LET s == Compose(ep, Params(ep, raw)) IN
       [Idle EXCEPT !.pc = "connect", !.ep = ep, !.raw = raw,
                    !.params = Params(ep, raw), !.sql = s.sql, !.args = s.args]

(***************************************************************************)
(* The arguments the transport may pass.                                   *)
(***************************************************************************)
Absent == [t |-> "absent"]

\* a field of the raw argument, left out when absent
Arg(name, x) == IF x = Absent THEN <<>> ELSE (name :> x)

IdValues == {Absent, IntV(0), IntV(1), IntV(9999)}
LimitValues ==
  {Absent, IntV(LimitMin - 1), IntV(LimitMin), IntV(LimitMax), IntV(LimitMax + 1)}

RawArgs(ep) ==
  CASE ep = "list_factories" ->
         {Arg("factory_id", f) : f \in IdValues \cup {IntV(2), Null, TextV("one")}}
           \cup {Arg("factory_id", IntV(1)) @@ Arg("country", TextV("Germany"))}
    [] ep = "get_machines" ->
         {Arg("status", s) @@ Arg("factory_id", f) :
            s \in {Absent, TextV(""), TextV("operational"), TextV("offline")},
            f \in IdValues}
           \cup {Arg("status", IntV(1)), Arg("line_id", IntV(1))}
    [] ep = "get_work_orders" ->
         {Arg("status", s) @@ Arg("priority", p) @@ Arg("factory_id", f) @@ Arg("limit", l) :
            s \in {Absent, TextV(""), TextV("completed")},
            p \in {Absent, TextV(""), TextV("high")},
            f \in {Absent, IntV(0), IntV(1)},
            l \in LimitValues}
           \cup {Arg("operator_id", IntV(1)), Arg("limit", IntV(5)) @@ Arg("offset", IntV(5))}
    [] ep = "quality_summary" ->
         {Arg("result", r) @@ Arg("factory_id", f) @@ Arg("limit", l) :
            r \in {Absent, TextV(""), TextV("fail")},
            f \in {Absent, IntV(0), IntV(2)},
            l \in LimitValues}
           \cup {Arg("defect_type", TextV("Porosity"))}
    [] ep = "maintenance_report" ->
         {Arg("machine_id", m) @@ Arg("maintenance_type", t) @@ Arg("limit", l) :
            m \in {Absent, IntV(0), IntV(3)},
            t \in {Absent, TextV(""), TextV("emergency")},
            l \in LimitValues}
           \cup {Arg("resolved", IntV(0))}
    [] ep = "run_query" ->
         {Arg("sql", TextV(s)) :
            s \in {"DROP TABLE factories", "UPDATE machines SET status='offline'",
                   "SELECT * FROM factories", "  select * from parts where id = 1 ",
                   "SeLeCt 1", "selectx 1", "SELECT 1; DROP TABLE factories;",
                   "SELECT * FROM nosuch", "SELECT * FROM factories WHERE id = 9999",
                   "\n\tSELECT * FROM machines;", "WITH t AS (SELECT 1) SELECT * FROM t",
                   "DROP", "   "}}
           \cup {<<>>, Arg("sql", IntV(1)), Arg("sql", TextV("SELECT 1")) @@ Arg("limit", IntV(1))}
    [] OTHER -> {<<>>}

Calls == UNION {{[ep |-> e, raw |-> r] : r \in RawArgs(e)} : e \in Endpoints}

\* the calls made while other invocations are in flight
ConcurrentCalls ==
  {[ep |-> "list_factories", raw |-> <<>>],
   [ep |-> "get_work_orders", raw |-> Arg("limit", IntV(LimitMax + 1))],
   [ep |-> "run_query", raw |-> Arg("sql", TextV("SELECT * FROM nosuch"))],
   [ep |-> "run_query", raw |-> Arg("sql", TextV("DROP TABLE factories"))],
   [ep |-> "get_schema", raw |-> <<>>]}

(***************************************************************************)
(* Connections.                                                            *)
(***************************************************************************)
\* sqlite3.connect(DB_PATH): a new connection object
FreshConn == CHOOSE c \in 1..(Cardinality(DOMAIN conns) + 1) : c \notin DOMAIN conns

Opened(cs, c, i) == (c :> [owner |-> i, open |-> TRUE, users |-> {}]) @@ cs

UsedBy(cs, c, i) == [cs EXCEPT ![c].users = @ \cup {i}]

\* Closed without the finally: the close is skipped when the try block raised
ClosedOnSuccess(cs, c, pending) ==
  IF pending.kind = "error" THEN cs ELSE [cs EXCEPT ![c].open = FALSE]

\* the finally clause: conn.close(), whatever the try block left pending
Closed(cs, c, pending) == [cs EXCEPT ![c].open = FALSE]

\* the connection objects of an invocation that has ended are collected
Collected(cs, i) == [c \in {d \in DOMAIN cs : cs[d].owner /= i \/ cs[d].open} |-> cs[c]]

(***************************************************************************)
(* What a tool makes of the outcome of query_db.                           *)
(***************************************************************************)
\* return fmt(query_db(sql, tuple(args))): an exception propagates
template_result(pending) ==
  IF pending.kind = "rows" THEN Returned(fmt(pending.rows))
  ELSE Raised(pending.type, pending.msg)

\* run_query_result without the except clause
run_query_reraises(pending) ==
  IF pending.kind = "rows" THEN Returned(fmt(pending.rows))
  ELSE Raised(pending.type, pending.msg)

\* try: rows = query_db(sql); return fmt(rows)  except Exception as e: ...
run_query_result(pending) ==
  IF pending.kind = "rows" THEN Returned(fmt(pending.rows))
  ELSE Returned("Query error: " \o pending.msg)

\* get_schema: return json.dumps(result, indent=2) inside try/finally
get_schema_result(pending) ==
  IF pending.kind = "schema" THEN Returned(SchemaDumps(pending.entries))
  ELSE Raised(pending.type, pending.msg)

Result(ep, pending) ==
  CASE ep = "run_query" -> run_query_result(pending)
    [] ep = "get_schema" -> get_schema_result(pending)
    [] OTHER -> template_result(pending)

(***************************************************************************)
(* Actions.                                                                *)
(***************************************************************************)
Init ==
  /\ db \in Stores
  /\ conns = <<>>
  /\ inv = [i \in Slots |-> Idle]
  /\ seeding = NotSeeding

\* the server started beside a running seed, or with no database file
InitConcurrent ==
  /\ db \in {Creating, EmptyStore}
  /\ conns = <<>>
  /\ inv = [i \in Slots |-> Idle]
  /\ seeding = NotSeeding

\* the transport invokes a tool while no other invocation is in flight
Invoke(i) ==
  /\ FreeSlot(i)
  /\ \A j \in Slots : inv[j].pc = "idle"
  /\ \E c \in Calls : inv' = [inv EXCEPT ![i] = Begin(c.ep, c.raw)]
  /\ UNCHANGED <<db, conns, seeding>>

\* the transport invokes a tool, whatever else is in flight
InvokeConcurrent(i) ==
  /\ FreeSlot(i)
  /\ \E c \in ConcurrentCalls : inv' = [inv EXCEPT ![i] = Begin(c.ep, c.raw)]
  /\ UNCHANGED <<db, conns, seeding>>

\* conn = sqlite3.connect(DB_PATH)
Connect(i) ==
  /\ inv[i].pc = "connect"
  /\ conns' = Opened(conns, FreshConn, i)
  /\ inv' = [inv EXCEPT ![i].conn = FreshConn,
                        ![i].pc = IF inv[i].ep = "get_schema" THEN "list_tables" ELSE "execute"]
  /\ UNCHANGED <<db, seeding>>

\* rows = conn.execute(sql, params).fetchall(); [dict(r) for r in rows]
ExecuteStatement(i) ==
  /\ inv[i].pc = "execute"
  /\ LET r == Execute(db, inv[i].sql, inv[i].args) IN
     /\ db' = r.db
     /\ inv' = [inv EXCEPT ![i].pc = "close",
                           ![i].executes = @ + 1,
                           ![i].pending = IF r.ok THEN GotRows(r.rows)
                                          ELSE GotError(r.type, r.msg)]
  /\ conns' = UsedBy(conns, inv[i].conn, i)
  /\ UNCHANGED seeding

\* any execute may fail while another process (the seed) holds the store
ExecuteBusy(i) ==
  /\ inv[i].pc \in {"execute", "list_tables", "table_info"}
  /\ inv' = [inv EXCEPT ![i].pc = "close",
                        ![i].executes = @ + 1,
                        ![i].pending = GotError("OperationalError", "database is locked")]
  /\ conns' = UsedBy(conns, inv[i].conn, i)
  /\ UNCHANGED <<db, seeding>>

\* the names a schema can hold, in the order of ORDER BY name
TablesByName ==
  [k \in 1..Cardinality(TableNames) |->
     CHOOSE n \in TableNames : Cardinality({m \in TableNames : StrLess(m, n)}) = k - 1]

\* tables = conn.execute("SELECT name FROM sqlite_master ... ORDER BY name").fetchall()
ListTables(i) ==
  /\ inv[i].pc = "list_tables"
  /\ LET names == SelectSeq(TablesByName, LAMBDA n : n \in DOMAIN db)
     IN inv' = [inv EXCEPT ![i].pc = IF names = <<>> THEN "close" ELSE "table_info",
                           ![i].executes = @ + 1,
                           ![i].pending = GotSchema(names, <<>>)]
  /\ conns' = UsedBy(conns, inv[i].conn, i)
  /\ UNCHANGED <<db, seeding>>

\* one turn of the loop: PRAGMA table_info and PRAGMA foreign_key_list of a table
TableInfo(i) ==
  /\ inv[i].pc = "table_info"
  /\ LET t == Head(inv[i].pending.todo)
         here == t \in DOMAIN db
         entry == SchemaEntry(t, IF here THEN SCHEMA[t].columns ELSE <<>>,
                              IF here THEN SCHEMA[t].fks ELSE <<>>)
         rest == Tail(inv[i].pending.todo)
     IN inv' = [inv EXCEPT ![i].pc = IF rest = <<>> THEN "close" ELSE "table_info",
                           ![i].executes = @ + 2,
                           ![i].pending = GotSchema(rest, Append(inv[i].pending.entries, entry))]
  /\ conns' = UsedBy(conns, inv[i].conn, i)
  /\ UNCHANGED <<db, seeding>>

\* finally: conn.close(); then the tool returns or the exception goes on
Close(i) ==
  /\ inv[i].pc = "close"
  /\ conns' = Closed(conns, inv[i].conn, inv[i].pending)
  /\ inv' = [inv EXCEPT ![i].pc = "done",
                        ![i].outcome = Result(inv[i].ep, inv[i].pending)]
  /\ UNCHANGED <<db, seeding>>

\* the transport takes the outcome; the slot is free again
Return(i) ==
  /\ inv[i].pc = "done"
  /\ inv' = [inv EXCEPT ![i] = Idle]
  /\ conns' = Collected(conns, i)
  /\ UNCHANGED <<db, seeding>>

Next ==
  \E i \in Slots :
    \/ Invoke(i)
    \/ Connect(i)
    \/ ExecuteStatement(i)
    \/ ExecuteBusy(i)
    \/ ListTables(i)
    \/ TableInfo(i)
    \/ Close(i)
    \/ Return(i)

NextConcurrent ==
  \E i \in Slots :
    \/ InvokeConcurrent(i)
    \/ Connect(i)
    \/ ExecuteStatement(i)
    \/ ExecuteBusy(i)
    \/ ListTables(i)
    \/ TableInfo(i)
    \/ Close(i)
    \/ Return(i)

\* one invocation at a time, every argument
Spec == Init /\ [][Next]_vars

\* invocations interleaved step by step
SpecConcurrent == InitConcurrent /\ [][NextConcurrent]_vars

(***************************************************************************)
(* The seed script.  random is a generator: the values a run draws are a   *)
(* function of the state the generator starts in.  A run starts in one of  *)
(* the states 0..MaxDraw; the value drawn for a row depends on that state  *)
(* and on the row, and takes the ends and the middle of its range.  Dates  *)
(* are days counted from the day of the run (strftime and strptime of      *)
(* "%Y-%m-%d" keep the day).  Letters outside ASCII are written in ASCII.  *)
(***************************************************************************)
\* random.randint(lo, hi), drawn
randint(lo, hi, drawn) ==
  CASE drawn % 3 = 0 -> lo
    [] drawn % 3 = 1 -> hi
    [] OTHER -> (lo + hi) \div 2

\* random.choice(seq), drawn
choice(seq, drawn) == seq[(drawn % Len(seq)) + 1]

\* random_date(start_days_ago, end_days_ago): the day number of the date
random_date(start_days_ago, end_days_ago, drawn) ==
  0 - randint(end_days_ago, start_days_ago, drawn)

\* SeedTables with every table that is referred to after those that refer to it
SeedTablesChildrenFirst ==
  <<"maintenance_logs", "quality_inspections", "work_order_parts", "work_orders",
    "purchase_orders", "parts", "suppliers", "employees", "machines", "production_lines",
    "factories">>

\* the tables in the order of the CREATE TABLE statements of SCHEMA, which
\* is the order of the executemany calls of seed
SeedTables ==
  <<"factories", "production_lines", "machines", "employees", "suppliers", "parts",
    "purchase_orders", "work_orders", "work_order_parts", "quality_inspections",
    "maintenance_logs">>

\* the literal lists of seed, in the columns the model keeps
FixedRows(table) ==
  CASE table = "factories" ->
         LET names == <<"NordSteel Leipzig", "PolyFab Milano", "AeroTech Toulouse",
                        "PrecisionWorks Gdansk", "MetalCore Monterrey">>
         IN  [i \in 1..5 |-> [id |-> IntV(i), name |-> TextV(names[i]), active |-> IntV(1)]]
    [] table = "production_lines" ->
         LET lines == <<<<1, "Steel Casting Line A">>, <<1, "Steel Casting Line B">>,
                        <<1, "Quality Control Line">>, <<2, "Polymer Extrusion Line 1">>,
                        <<2, "Polymer Extrusion Line 2">>, <<3, "Fuselage Assembly A">>,
                        <<3, "Wing Component Line">>, <<4, "CNC Machining Center">>,
                        <<4, "Surface Treatment Line">>, <<5, "Stamping Press Line">>>>
         IN  [i \in 1..10 |->
                [id |-> IntV(i), factory_id |-> IntV(lines[i][1]), name |-> TextV(lines[i][2])]]
    [] table = "machines" ->
         LET machine_data ==
               <<<<1, "Arc Furnace #1", "operational", 120>>,
                 <<1, "Continuous Caster A", "operational", 80>>,
                 <<2, "Rolling Mill X1", "operational", 65>>,
                 <<2, "Coiling Machine B2", "operational", 30>>,
                 <<3, "Ultrasonic Tester", "operational", 10>>,
                 <<4, "Extruder PE-90", "maintenance", 200>>,
                 <<4, "Haul-Off Unit H4", "operational", 55>>,
                 <<5, "Extruder PE-120", "operational", 25>>,
                 <<6, "Riveting Robot RR-1", "operational", 90>>,
                 <<6, "Panel Joining Unit", "operational", 45>>,
                 <<7, "Spar Drilling Machine", "offline", 350>>,
                 <<8, "CNC Lathe L1", "operational", 15>>,
                 <<8, "5-Axis Mill M3", "operational", 5>>,
                 <<9, "Shot Blast Unit SB2", "operational", 70>>,
                 <<10, "Hydraulic Press P1", "operational", 95>>,
                 <<10, "Stamping Die System", "operational", 20>>>>
         IN  [i \in 1..16 |->
                [id |-> IntV(i), production_line_id |-> IntV(machine_data[i][1]),
                 name |-> TextV(machine_data[i][2]), status |-> TextV(machine_data[i][3]),
                 cumulative_downtime_hours |-> RealV(10 * machine_data[i][4])]]
    [] table = "suppliers" ->
         LET suppliers == <<<<"ThyssenKrupp Materials", 91>>, <<"SABIC Europe", 84>>,
                            <<"Hexcel Composites", 89>>, <<"Fastener World", 62>>,
                            <<"Lubrizol Additives", 95>>, <<"Sandvik Tooling", 97>>,
                            <<"IGS Gaskets", 78>>, <<"Nippon Steel Supply", 86>>>>
         IN  [i \in 1..8 |->
                [id |-> IntV(i), name |-> TextV(suppliers[i][1]),
                 reliability_score |-> RealV(suppliers[i][2])]]
    [] table = "parts" ->
         LET parts_data ==
               <<<<"High-Carbon Steel Billet", 320, 100, 1>>,
                 <<"PVC Resin Grade K67", 180, 80, 2>>,
                 <<"Carbon Fiber Prepreg", 45, 20, 3>>,
                 <<"M12 Hex Bolt (box/100)", 850, 200, 4>>,
                 <<"M8 Lock Nut (box/100)", 620, 200, 4>>,
                 <<"Industrial Lubricant 5L", 95, 40, 5>>,
                 <<"Tungsten Carbide Insert", 60, 25, 6>>,
                 <<"Hydraulic Seal Kit", 35, 30, 7>>,
                 <<"HDPE Granules 25kg", 260, 80, 2>>,
                 <<"Aluminum Sheet 2mm", 140, 50, 8>>,
                 <<"Titanium Fastener Kit", 28, 20, 4>>,
                 <<"Welding Wire ER70S-6", 110, 50, 1>>>>
         IN  [i \in 1..12 |->
                [id |-> IntV(i), name |-> TextV(parts_data[i][1]),
                 stock_quantity |-> IntV(parts_data[i][2]),
                 reorder_threshold |-> IntV(parts_data[i][3]),
                 supplier_id |-> IntV(parts_data[i][4])]]
    [] OTHER -> <<>>

\* quantity_produced drawn whatever the status
quantity_drawn(target, status, drawn) == randint(0, target, drawn)

\* produced = target if status == "completed" else
\*            (random.randint(0, target) if status == "in_progress" else 0)
quantity_produced(target, status, drawn) ==
  IF status = "completed" THEN target
  ELSE IF status = "in_progress" THEN randint(0, target, drawn)
  ELSE 0

\* actual_delivery set whatever the status
actual_delivery_always(exp_delivery, status, drawn) ==
  DateV(exp_delivery + randint(0 - 3, 15, drawn))

\* actual_delivery = None; if status == "delivered": exp_delivery - 3..+ 15 days
actual_delivery(exp_delivery, status, drawn) ==
  IF status = "delivered" THEN DateV(exp_delivery + randint(0 - 3, 15, drawn)) ELSE Null

\* the lists seed builds from random values, the generator started in g
DrawnRows(table, g) ==
  CASE table = "employees" ->
         LET names == <<"Lukas Becker", "Maria Rossi", "Jean Dupont", "Anna Kowalski",
                        "Carlos Mendez", "Sophie Laurent", "Piotr Nowak", "Elena Muller",
                        "Ricardo Garcia", "Hana Novak", "Thomas Braun", "Isabela Silva",
                        "Marek Wojcik", "Claire Bernard", "Diego Torres", "Monika Krol",
                        "Stefan Huber", "Fatima Benali", "Andrei Popescu", "Laura Esposito",
                        "Hans Zimmermann", "Katarzyna Dabrowska", "Miguel Fernandez",
                        "Sara Bianchi", "Robert Klein">>
             shifts == <<"morning", "afternoon", "night">>
         IN  [i \in 1..Len(names) |->
                [id |-> IntV(i), name |-> TextV(names[i]),
                 factory_id |-> IntV(randint(1, 5, i + g)),
                 shift |-> TextV(choice(shifts, (i + g) \div 3)), active |-> IntV(1)]]
    [] table = "purchase_orders" ->
         LET po_statuses == <<"pending", "shipped", "delivered", "delivered", "delivered",
                              "cancelled">>
         IN  [i \in 1..60 |->
                LET n == i + g
                    order_date == random_date(180, 10, n \div 18)
                    exp_delivery == order_date + randint(7, 40, n \div 2)
                    status == choice(po_statuses, n)
                IN  [id |-> IntV(i), supplier_id |-> IntV(randint(1, 8, n)),
                     part_id |-> IntV(randint(1, 12, n \div 3)),
                     expected_delivery |-> DateV(exp_delivery),
                     actual_delivery |-> actual_delivery(exp_delivery, status, n \div 6),
                     status |-> TextV(status)]]
    [] table = "work_orders" ->
         LET statuses_wo == <<"planned", "in_progress", "completed", "completed",
                              "completed", "cancelled">>
             priorities == <<"low", "medium", "high", "critical">>
         IN  [i \in 1..200 |->
                LET n == i + g
                    target == randint(50, 500, n \div 18)
                    status == choice(statuses_wo, n)
                    start == random_date(200, 5, n \div 54)
                IN  [id |-> IntV(i), production_line_id |-> IntV(randint(1, 10, n)),
                     operator_id |-> IntV(randint(1, 25, n \div 3)),
                     quantity_target |-> IntV(target),
                     quantity_produced |-> IntV(quantity_produced(target, status, n \div 6)),
                     start_date |-> DateV(start),
                     end_date |-> IF status = "completed"
                                  THEN DateV(start + randint(1, 14, n \div 6)) ELSE Null,
                     status |-> TextV(status), priority |-> TextV(choice(priorities, n))]]
    [] table = "work_order_parts" ->
         \* one to three rows per work order, numbered by the counter wop_id
         LET count(wo_id) == randint(1, 3, wo_id + g)
             \* the value of wop_id when the turn of a work order begins
             first == [wo_id \in 1..201 |->
                         1 + Cardinality({<<w, k>> \in (1..(wo_id - 1)) \X (1..3) :
                                            k <= count(w)})] @@ <<>>
         IN  [wop_id \in 1..(first[201] - 1) |->
                LET wo_id == CHOOSE w \in 1..200 :
                               first[w] <= wop_id /\ wop_id < first[w + 1]
                    n == wop_id + g
                    qty_req == randint(5, 100, n \div 3)
                IN  [id |-> IntV(wop_id), work_order_id |-> IntV(wo_id),
                     part_id |-> IntV(randint(1, 12, n)),
                     quantity_required |-> IntV(qty_req),
                     quantity_used |-> IntV(IF (n \div 9) % 5 > 0 THEN qty_req
                                            ELSE randint(0, qty_req, n \div 45))]]
    [] table = "quality_inspections" ->
         LET defect_types == <<TextV("Dimensional deviation"), TextV("Surface crack"),
                               TextV("Porosity"), TextV("Delamination"), TextV("Weld defect"),
                               TextV("Hardness out of spec"),
                               TextV("Paint adhesion failure"), Null, Null, Null>>
         IN  [i \in 1..500 |->
                LET n == i + g
                    result == choice(<<"pass", "fail", "conditional_pass">>, n \div 9)
                    defect == IF result /= "pass" THEN choice(defect_types, n) ELSE Null
                IN  [id |-> IntV(i), work_order_id |-> IntV(randint(1, 200, n)),
                     inspector_id |-> IntV(randint(1, 25, n \div 3)),
                     result |-> TextV(result), defect_type |-> defect,
                     defect_count |-> IntV(IF defect /= Null THEN randint(1, 8, n \div 27)
                                           ELSE 0)]]
    [] table = "maintenance_logs" ->
         LET maint_types == <<"preventive", "corrective", "emergency">>
         IN  [i \in 1..150 |->
                LET n == i + g
                    mtype == choice(maint_types, n \div 9)
                IN  [id |-> IntV(i), machine_id |-> IntV(randint(1, 16, n)),
                     technician_id |-> IntV(randint(1, 25, n \div 3)),
                     maintenance_date |-> DateV(random_date(365, 1, n \div 27)),
                     maintenance_type |-> TextV(mtype),
                     downtime_hours |-> RealV(IF mtype = "emergency"
                                              THEN randint(5, 480, n \div 27)
                                              ELSE randint(5, 120, n \div 27))]]
    [] OTHER -> FixedRows(table)

\* executemany("INSERT OR IGNORE INTO table VALUES (...)", batch): a row is
\* left out when its id is in the table or a CHECK of the table fails (the
\* ids of a list of seed are distinct, and so are the sku of the parts)
InsertOrIgnore(table, rows, batch) ==
  LET ids == {rows[k].id : k \in DOMAIN rows}
      Within(r, col, values) == r[col] = Null \/ (r[col].t = "text" /\ r[col].v \in values)
      Checked(r) ==
        CASE table = "machines" ->
               Within(r, "status", {"operational", "maintenance", "offline"})
          [] table = "employees" -> Within(r, "shift", {"morning", "afternoon", "night"})
          [] table = "suppliers" ->
               r.reliability_score.v >= 0 /\ r.reliability_score.v <= 100
          [] table = "purchase_orders" ->
               Within(r, "status", {"pending", "shipped", "delivered", "cancelled"})
          [] table = "work_orders" ->
               /\ Within(r, "status", {"planned", "in_progress", "completed", "cancelled"})
               /\ Within(r, "priority", {"low", "medium", "high", "critical"})
          [] table = "quality_inspections" ->
               Within(r, "result", {"pass", "fail", "conditional_pass"})
          [] table = "maintenance_logs" ->
               Within(r, "maintenance_type", {"preventive", "corrective", "emergency"})
          [] OTHER -> TRUE
  IN  rows \o SelectSeq(batch, LAMBDA r : r.id \notin ids /\ Checked(r))

\* python seed_db.py: conn = sqlite3.connect(db_path), the generator in some state
StartSeed ==
  /\ seeding.pc = "idle"
  /\ seeding.runs < MaxRuns
  /\ \A j \in Slots : inv[j].pc = "idle"
  /\ \E g \in 0..MaxDraw :
       seeding' = [seeding EXCEPT !.pc = "schema", !.step = 1, !.draw = g]
  /\ UNCHANGED <<db, conns, inv>>

\* conn.executescript(SCHEMA): one CREATE TABLE IF NOT EXISTS, committed on its own
CreateTable ==
  /\ seeding.pc = "schema"
  /\ LET t == SeedTables[seeding.step]
         store == IF t \in DOMAIN db THEN db ELSE (t :> <<>>) @@ db
     IN  /\ db' = store
         /\ seeding' = IF seeding.step < Len(SeedTables)
                       THEN [seeding EXCEPT !.step = @ + 1]
                       ELSE [seeding EXCEPT !.pc = "insert", !.step = 1, !.tx = store]
  /\ UNCHANGED <<conns, inv>>

\* one list built and c.executemany("INSERT OR IGNORE ...") on it, inside the
\* transaction of the connection: tx is the store as the connection sees it
InsertBatch ==
  /\ seeding.pc = "insert"
  /\ LET t == SeedTables[seeding.step] IN
     seeding' = [seeding EXCEPT
                   !.tx[t] = InsertOrIgnore(t, @, DrawnRows(t, seeding.draw)),
                   !.pc = IF seeding.step < Len(SeedTables) THEN "insert" ELSE "commit",
                   !.step = IF seeding.step < Len(SeedTables) THEN @ + 1 ELSE 0]
  /\ UNCHANGED <<db, conns, inv>>

\* conn.commit(); conn.close()
Commit ==
  /\ seeding.pc = "commit"
  /\ db' = seeding.tx
  /\ seeding' = [NotSeeding EXCEPT !.runs = seeding.runs + 1]
  /\ UNCHANGED <<conns, inv>>

\* the calls made of the server beside the seed script
SeededCalls ==
  {[ep |-> "get_work_orders", raw |-> Arg("status", TextV("completed")) @@ Arg("limit", l)] :
     l \in {Absent, IntV(LimitMin), IntV(LimitMax)}}
    \cup {[ep |-> "get_work_orders",
           raw |-> Arg("status", TextV("completed")) @@ Arg("factory_id", IntV(1))]}

\* the transport invokes a tool while the seed script is not running
InvokeSeeded(i) ==
  /\ FreeSlot(i)
  /\ \A j \in Slots : inv[j].pc = "idle"
  /\ seeding.pc = "idle"
  /\ \E c \in SeededCalls : inv' = [inv EXCEPT ![i] = Begin(c.ep, c.raw)]
  /\ UNCHANGED <<db, conns, seeding>>

\* no database file yet
InitSeed ==
  /\ db = EmptyStore
  /\ conns = <<>>
  /\ inv = [i \in Slots |-> Idle]
  /\ seeding = NotSeeding

NextSeed ==
  \/ StartSeed
  \/ CreateTable
  \/ InsertBatch
  \/ Commit
  \/ \E i \in Slots :
       \/ InvokeSeeded(i)
       \/ Connect(i)
       \/ ExecuteStatement(i)
       \/ Close(i)
       \/ Return(i)

\* runs of the seed script, and invocations of the server between them
SpecSeed == InitSeed /\ [][NextSeed]_vars

(***************************************************************************)
(* Properties.  Each is stated of the invocations as the state holds them: *)
(* what was passed (raw), what validation made of it (params), what was    *)
(* handed to the store (sql, args), what the store gave back (pending) and *)
(* what the caller got (outcome).                                          *)
(***************************************************************************)
Started(i) == inv[i].pc /= "idle"

\* the invocations that got past validation
Accepted(i) == Started(i) /\ Valid(inv[i].ep, inv[i].raw)

IsWordChar(c) ==
  LET n == Code(c) IN
  \/ n >= 48 /\ n <= 57
  \/ n >= 65 /\ n <= 90
  \/ n >= 97 /\ n <= 122
  \/ n = 95

RECURSIVE WordEnd(_, _)
\* the length of the longest run of word characters that s starts with
WordEnd(s, n) ==
  IF n < Len(s) /\ IsWordChar(CharAt(s, n + 1)) THEN WordEnd(s, n + 1) ELSE n

\* the first keyword of a statement, in lower case
FirstKeyword(s) == Lower(SubSeq(s, 1, WordEnd(s, 0)))

\* C1: run_query returns the refusal text and opens no connection unless the
\* first keyword of the trimmed statement is, ignoring case, exactly SELECT;
\* when it is, the trimmed statement is what the executor is given.
RunQueryGuard ==
  \A i \in Slots :
    (Accepted(i) /\ inv[i].ep = "run_query") =>
      LET trimmed == Strip(inv[i].raw.sql.v) IN
      IF FirstKeyword(trimmed) = "select"
      THEN inv[i].sql = trimmed /\ inv[i].outcome /= Returned(RefusalText)
      ELSE /\ inv[i].pc = "done"
           /\ inv[i].outcome = Returned(RefusalText)
           /\ inv[i].conn = 0
           /\ inv[i].executes = 0

\* C2: no step of any invocation changes the set of tables or the rows of a
\* table.
ReadOnly == [][db' = db]_vars

\* a statement that chains a DROP TABLE after a SELECT passed the guard, was
\* executed, and the table is still there
ChainedStatementRan ==
  \E i \in Slots :
    /\ inv[i].ep = "run_query"
    /\ inv[i].sql = "SELECT 1; DROP TABLE factories;"
    /\ inv[i].pc = "done"
    /\ inv[i].executes = 1
    /\ "factories" \in DOMAIN db

\* C3: whenever the store rejects a statement of any endpoint, the invocation
\* ends by returning a text, not by raising.
ErrorsCaught ==
  \A i \in Slots :
    (inv[i].pc = "done" /\ inv[i].pending.kind = "error") => inv[i].outcome.kind = "returned"

\* C4: when the execution of a statement that passed the guard of run_query
\* raises, run_query returns a text that begins "Query error: ", and the
\* statement was executed once.
RunQueryErrorPath ==
  \A i \in Slots :
    (inv[i].ep = "run_query" /\ inv[i].pc = "done" /\ inv[i].pending.kind = "error") =>
      /\ inv[i].outcome.kind = "returned"
      /\ StartsWith(inv[i].outcome.text, "Query error: ")
      /\ inv[i].outcome.text = "Query error: " \o inv[i].pending.msg
      /\ inv[i].executes = 1

\* run_query has ended on an error of the store
RunQueryFailed ==
  \E i \in Slots :
    /\ inv[i].ep = "run_query"
    /\ inv[i].pc = "done"
    /\ inv[i].pending.kind = "error"
    /\ inv[i].outcome.kind = "returned"

\* the invocations that hold a connection
Connected(i) == inv[i].pc \in {"execute", "list_tables", "table_info", "close"}

\* C5: every invocation that reaches the store has a connection of its own,
\* open while it executes and fetches, used by no other invocation and closed
\* when the invocation has returned or raised; when no invocation is in
\* flight no connection is open.
ScopedConnections ==
  /\ \A c \in DOMAIN conns :
       /\ conns[c].users \subseteq {conns[c].owner}
       /\ conns[c].open => (Connected(conns[c].owner) /\ inv[conns[c].owner].conn = c)
  /\ \A i \in Slots :
       /\ Connected(i) =>
            /\ inv[i].conn \in DOMAIN conns
            /\ conns[inv[i].conn].owner = i
            /\ conns[inv[i].conn].open
       /\ (inv[i].pc = "done" /\ inv[i].conn /= 0) =>
            /\ inv[i].conn \in DOMAIN conns
            /\ ~conns[inv[i].conn].open
            /\ conns[inv[i].conn].users \subseteq {i}
       /\ \A j \in Slots \ {i} :
            (inv[i].conn /= 0 /\ inv[j].conn /= 0) => inv[i].conn /= inv[j].conn
  /\ (\A i \in Slots : ~InFlight(i)) => \A c \in DOMAIN conns : ~conns[c].open

\* two invocations hold open connections at once, and one of them has an
\* error pending
TwoConnectionsOpen ==
  \E i, j \in Slots :
    /\ i /= j
    /\ Connected(i) /\ Connected(j)
    /\ conns[inv[i].conn].open /\ conns[inv[j].conn].open
    /\ inv[i].pc = "close" /\ inv[i].pending.kind = "error"
    /\ inv[j].pc = "close" /\ inv[j].pending.kind \in {"rows", "schema"}

\* the template of a template endpoint
TemplateOf(ep) == Templates[CHOOSE k \in DOMAIN Templates : Templates[k].ep = ep]

Limited(ep) == "limit" \in FieldNames(ep)

\* the filter fields of an endpoint: its declared fields but the limit
FilterFields(ep) == FieldNames(ep) \ {"limit"}

\* the number of placeholders in a text
Placeholders(text) == Cardinality({k \in 1..Len(text) : CharAt(text, k) = Placeholder})

\* the filter field a predicate on a column is about
FieldOfColumn(col) ==
  LET name == Drop(col, Find(col, ".")) IN
  IF name = "id" THEN "factory_id" ELSE name

\* params with every value that is passed on replaced by a fixed one of its type
Canonical(params) ==
  [n \in DOMAIN params |->
     IF ~Truthy(params[n]) THEN params[n]
     ELSE IF params[n].t = "int" THEN IntV(7) ELSE TextV("v")]

\* the invocations of filter endpoints whose statement has just been composed
Composed(i) == inv[i].ep \in FilterEndpoints /\ inv[i].pc = "connect"

\* C6: the statement text of a filter endpoint is the fixed text of its
\* template, then predicates "AND <column> = ?", then the fixed tail with
\* " LIMIT ?" last where the endpoint has a limit; the text is the same
\* whatever the values passed; the placeholders are as many as the bound
\* values, the i-th bound value is the value of the field of the i-th
\* predicate, and the limit is the last bound value.
InjectionSafe ==
  \A i \in Slots :
    Composed(i) =>
      LET ep == inv[i].ep
          t == TemplateOf(ep)
          w == ParseWhere(Drop(inv[i].sql, Len(t.text)), <<>>)
          n == Len(w.cols)
      IN  /\ StartsWith(inv[i].sql, t.text)
          /\ w.rest = t.tail \o (IF Limited(ep) THEN " LIMIT " \o Placeholder ELSE "")
          /\ inv[i].sql = Compose(ep, Canonical(inv[i].params)).sql
          /\ Placeholders(inv[i].sql) = Len(inv[i].args)
          /\ Len(inv[i].args) = n + (IF Limited(ep) THEN 1 ELSE 0)
          /\ \A k \in 1..n :
               /\ FieldOfColumn(w.cols[k]) \in FilterFields(ep)
               /\ inv[i].args[k] = inv[i].params[FieldOfColumn(w.cols[k])]
          /\ Limited(ep) => inv[i].args[n + 1] = inv[i].params.limit

\* a statement was composed with two predicates and a limit
TwoPredicatesAndLimit ==
  \E i \in Slots :
    /\ Composed(i)
    /\ inv[i].ep = "get_work_orders"
    /\ inv[i].args = <<TextV("completed"), IntV(1), IntV(LimitMax)>>

\* the result column that shows the value a filter field is compared with
ResultColumn(ep, field) ==
  IF field = "factory_id" THEN (IF ep = "list_factories" THEN "id" ELSE "")
  ELSE IF field = "machine_id" THEN ""
  ELSE field

\* C7: the statement of a filter endpoint carries one predicate for each
\* filter field the caller supplied and none for the others, and every row
\* returned has the supplied value in the column the field filters on.
FilterComposition ==
  \A i \in Slots :
    (Accepted(i) /\ inv[i].ep \in FilterEndpoints) =>
      LET ep == inv[i].ep
          supplied == {f \in FilterFields(ep) : inv[i].params[f] /= Null}
          w == ParseWhere(Drop(inv[i].sql, Len(TemplateOf(ep).text)), <<>>)
      IN  /\ Len(w.cols) = Cardinality(supplied)
          /\ {FieldOfColumn(w.cols[k]) : k \in DOMAIN w.cols} = supplied
          /\ inv[i].pending.kind = "rows" =>
               \A f \in supplied : \A k \in DOMAIN inv[i].pending.rows :
                 ResultColumn(ep, f) /= "" =>
                   Get(inv[i].pending.rows[k], ResultColumn(ep, f)) = inv[i].params[f]

\* C8: an invocation of a filter endpoint whose limit is outside 1..100, or
\* whose argument has an undeclared field, ends with a validation error with
\* no connection opened and no statement executed; a limit left out is 20.
ValidationFirst ==
  \A i \in Slots :
    (Started(i) /\ inv[i].ep \in FilterEndpoints) =>
      LET ep == inv[i].ep
          raw == inv[i].raw
          outside == /\ Limited(ep)
                     /\ "limit" \in DOMAIN raw
                     /\ raw["limit"].t = "int"
                     /\ (raw["limit"].v < 1 \/ raw["limit"].v > 100)
          undeclared == \E f \in DOMAIN raw : f \notin FieldNames(ep)
      IN  /\ (outside \/ undeclared) =>
               /\ inv[i].pc = "done"
               /\ inv[i].outcome.kind = "raised"
               /\ inv[i].outcome.type = "ValidationError"
               /\ inv[i].conn = 0
               /\ inv[i].executes = 0
               /\ inv[i].sql = ""
          /\ (Accepted(i) /\ Limited(ep) /\ "limit" \notin DOMAIN raw) =>
               /\ inv[i].params.limit = IntV(20)
               /\ inv[i].args[Len(inv[i].args)] = IntV(20)

\* a limit of 101 was rejected
LimitRejected ==
  \E i \in Slots :
    /\ inv[i].ep = "get_work_orders"
    /\ "limit" \in DOMAIN inv[i].raw
    /\ inv[i].raw["limit"] = IntV(101)
    /\ inv[i].pc = "done"
    /\ inv[i].outcome.kind = "raised"

\* C9: in the rows of inventory_status no OK row comes before a LOW STOCK
\* row, and rows of the same stock_status are in ascending stock_quantity.
InventoryOrdering ==
  \A i \in Slots :
    (inv[i].ep = "inventory_status" /\ inv[i].pending.kind = "rows") =>
      LET rows == inv[i].pending.rows IN
      \A a, b \in DOMAIN rows :
        a < b =>
          /\ ~(/\ Get(rows[a], "stock_status") = TextV("OK")
               /\ Get(rows[b], "stock_status") = TextV("LOW STOCK"))
          /\ Get(rows[a], "stock_status") = Get(rows[b], "stock_status") =>
               Get(rows[a], "stock_quantity").v <= Get(rows[b], "stock_quantity").v

\* C10: a template endpoint or run_query whose statement yields no rows
\* returns exactly "No results found."; one whose statement yields rows, or
\* that refuses or reports an error, returns another text.
EmptyResultSentinel ==
  /\ RefusalText /= NoResults
  /\ \A i \in Slots :
       (inv[i].pc = "done" /\ inv[i].ep \in TemplateEndpoints \cup {"run_query"}) =>
         /\ (inv[i].pending.kind = "rows" /\ inv[i].pending.rows = <<>>) =>
              inv[i].outcome = Returned(NoResults)
         /\ (inv[i].pending.kind = "rows" /\ inv[i].pending.rows /= <<>>) =>
              (inv[i].outcome.kind = "returned" /\ inv[i].outcome.text /= NoResults)
         /\ (inv[i].pending.kind /= "rows" /\ inv[i].outcome.kind = "returned") =>
              inv[i].outcome.text /= NoResults

\* a filter that matches nothing gave the sentinel
EmptyResultReturned ==
  \E i \in Slots :
    /\ inv[i].ep = "list_factories"
    /\ Accepted(i)
    /\ inv[i].params.factory_id = IntV(9999)
    /\ inv[i].pc = "done"
    /\ inv[i].pending = GotRows(<<>>)
    /\ inv[i].outcome = Returned(NoResults)

\* the seed script has run to its end at least once and is not running
SeededStore == seeding.runs >= 1 /\ seeding.pc = "idle"

\* C11.  Seed idempotence: once seed has populated the store, no step of a
\* later run of seed adds, changes or removes a row of any table.
SeedIdempotent == [][seeding.runs >= 1 => db' = db]_vars

\* the rows of a table, committed or inserted by the run in progress
Inserted(table) ==
  {db[table][k] : k \in DOMAIN (IF table \in DOMAIN db THEN db[table] ELSE <<>>)}
    \cup {seeding.tx[table][k] :
            k \in DOMAIN (IF table \in DOMAIN seeding.tx THEN seeding.tx[table] ELSE <<>>)}

StatusIs(r, statuses) == r.status.t = "text" /\ r.status.v \in statuses

\* C12.  Seeded work-order quantities: every work order seed inserts has
\* quantity_produced = quantity_target when completed, between 0 and the
\* target when in_progress, 0 when planned or cancelled; its target is not
\* 0; its end_date is set only when completed and is then after start_date.
SeededWorkOrderQuantities ==
  \A r \in Inserted("work_orders") :
    /\ StatusIs(r, {"completed"}) => r.quantity_produced = r.quantity_target
    /\ StatusIs(r, {"in_progress"}) =>
         /\ r.quantity_produced.t = "int"
         /\ 0 <= r.quantity_produced.v
         /\ r.quantity_produced.v <= r.quantity_target.v
    /\ StatusIs(r, {"planned", "cancelled"}) => r.quantity_produced = IntV(0)
    /\ r.quantity_target.t = "int" /\ r.quantity_target.v /= 0
    /\ r.end_date /= Null =>
         /\ StatusIs(r, {"completed"})
         /\ r.end_date.t = "date" /\ r.start_date.t = "date"
         /\ r.end_date.v > r.start_date.v

\* a run has committed work orders of every status, in-progress ones with
\* nothing, a part and all of the target produced, completed ones with an end
WorkOrdersSeeded ==
  /\ SeededStore
  /\ \A st \in {"planned", "in_progress", "completed", "cancelled"} :
       \E k \in DOMAIN db.work_orders : db.work_orders[k].status = TextV(st)
  /\ \E k \in DOMAIN db.work_orders :
       /\ db.work_orders[k].status = TextV("in_progress")
       /\ db.work_orders[k].quantity_produced = IntV(0)
  /\ \E k \in DOMAIN db.work_orders :
       /\ db.work_orders[k].status = TextV("in_progress")
       /\ db.work_orders[k].quantity_produced = db.work_orders[k].quantity_target
  /\ \E k \in DOMAIN db.work_orders :
       /\ db.work_orders[k].status = TextV("in_progress")
       /\ db.work_orders[k].quantity_produced.v > 0
       /\ db.work_orders[k].quantity_produced.v < db.work_orders[k].quantity_target.v
  /\ \E k \in DOMAIN db.work_orders :
       /\ db.work_orders[k].status = TextV("completed")
       /\ db.work_orders[k].end_date = DateV(db.work_orders[k].start_date.v + 1)

\* C13.  Seeded purchase orders: every purchase order seed inserts has no
\* actual_delivery when pending, shipped or cancelled, and when delivered
\* has one from 3 days before to 15 days after its expected_delivery.
SeededPurchaseOrderDelivery ==
  \A r \in Inserted("purchase_orders") :
    /\ StatusIs(r, {"pending", "shipped", "cancelled"}) => r.actual_delivery = Null
    /\ StatusIs(r, {"delivered"}) =>
         /\ r.actual_delivery.t = "date"
         /\ r.actual_delivery.v >= r.expected_delivery.v - 3
         /\ r.actual_delivery.v <= r.expected_delivery.v + 15

\* a run has committed purchase orders of every status, delivered ones at
\* both ends of the interval
PurchaseOrdersSeeded ==
  /\ SeededStore
  /\ \A st \in {"pending", "shipped", "delivered", "cancelled"} :
       \E k \in DOMAIN db.purchase_orders : db.purchase_orders[k].status = TextV(st)
  /\ \A days \in {0 - 3, 15} :
       \E k \in DOMAIN db.purchase_orders :
         /\ db.purchase_orders[k].status = TextV("delivered")
         /\ db.purchase_orders[k].actual_delivery
              = DateV(db.purchase_orders[k].expected_delivery.v + days)

\* C14.  get_work_orders on a store produced by seed, called with status
\* 'completed' and a valid limit, returns only completed work orders, each
\* with completion_pct = 100.0, and no more rows than the limit.
CompletedWorkOrders ==
  \A i \in Slots :
    (/\ inv[i].ep = "get_work_orders"
     /\ Accepted(i)
     /\ inv[i].params.status = TextV("completed")
     /\ seeding.runs >= 1
     /\ inv[i].pc = "done") =>
      /\ inv[i].pending.kind = "rows"
      /\ inv[i].outcome = Returned(fmt(inv[i].pending.rows))
      /\ Len(inv[i].pending.rows) <= inv[i].params.limit.v
      /\ \A k \in DOMAIN inv[i].pending.rows :
           /\ Get(inv[i].pending.rows[k], "status") = TextV("completed")
           /\ Get(inv[i].pending.rows[k], "completion_pct") = RealV(1000)

\* the default limit cut the completed work orders of a seeded store
CompletedPageReturned ==
  \E i \in Slots :
    /\ inv[i].ep = "get_work_orders"
    /\ Accepted(i)
    /\ inv[i].params.status = TextV("completed")
    /\ "limit" \notin DOMAIN inv[i].raw
    /\ SeededStore
    /\ inv[i].pc = "done"
    /\ inv[i].pending.kind = "rows"
    /\ Len(inv[i].pending.rows) = DefaultLimit
    /\ Len(SelectSeq(db.work_orders, LAMBDA r : r.status = TextV("completed"))) > DefaultLimit

\* the ids of the rows of a table in a store
Ids(store, table) ==
  IF table \in DOMAIN store THEN {store[table][k].id : k \in DOMAIN store[table]} ELSE {}

\* every foreign key of the rows of a table from position from on is the id
\* of a row of the parent table in the store parents
Resolves(rows, from, table, parents) ==
  \A k \in from..Len(rows) :
    \A f \in DOMAIN SCHEMA[table].fks :
      rows[k][SCHEMA[table].fks[f].from] \in Ids(parents, SCHEMA[table].fks[f].to_table)

\* C15.  Seed insertion order: each foreign key of a row that a step of seed
\* inserts is the id of a row inserted in the parent table before that step;
\* and once seed has run, every foreign key of every table of the store is
\* the id of a row of its parent table.
ParentsInsertedFirst ==
  /\ [][(seeding.pc = "insert" /\ seeding'.pc \in {"insert", "commit"}) =>
          \A t \in TableNames :
            Resolves(seeding'.tx[t], Len(seeding.tx[t]) + 1, t, seeding.tx)]_vars
  /\ [](SeededStore => \A t \in TableNames : Resolves(db[t], 1, t, db))

\* the first run of seed on an empty store has inserted its last list
AllBatchesInserted ==
  /\ seeding.runs = 0
  /\ seeding.pc = "commit"
  /\ db = [t \in TableNames |-> <<>>]
  /\ \A t \in TableNames : seeding.tx[t] /= <<>>
  /\ Len(seeding.tx.work_order_parts) > Len(seeding.tx.work_orders)

\* the work orders of the operator a result row of operator_performance is about
WorkOrdersOf(row) ==
  {w \in {db.work_orders[k] : k \in DOMAIN db.work_orders} :
     \E e \in DOMAIN db.employees :
       /\ db.employees[e].name = Get(row, "operator")
       /\ db.employees[e].id = w.operator_id}

\* C16.  operator_performance aggregates: in every row returned, completed
\* is the number of the operator's work orders whose status is completed, so
\* at most total_work_orders, and completion_rate_pct is 100 * completed /
\* total_work_orders rounded to one decimal, however many inspections the
\* work orders have.
OperatorAggregates ==
  \A i \in Slots :
    (inv[i].ep = "operator_performance" /\ inv[i].pending.kind = "rows") =>
      \A k \in DOMAIN inv[i].pending.rows :
        LET row == inv[i].pending.rows[k]
            done == Cardinality({w \in WorkOrdersOf(row) : w.status = TextV("completed")})
        IN  /\ Get(row, "completed") = IntV(done)
            /\ Get(row, "completed").v <= Get(row, "total_work_orders").v
            /\ Get(row, "completion_rate_pct")
                 = RoundPct(IntV(done), Get(row, "total_work_orders"))

=============================================================================
